---- MODULE Spec2Model ----
(***************************************************************************)
(* Port-MCP Enforcer: plan builder, executor and update-container-ports    *)
(* handler, modelled as state machines.                                    *)
(*                                                                         *)
(*   SpecPlan  buildPlan applied to bounded inputs                         *)
(*   SpecExec  one runExecutor run (gates, loop, handlers, audit, events)  *)
(*   SpecUpd   one updateContainerPorts call against a container runtime   *)
(*   SpecClassify  classify followed by buildPlan, as POST /api/plan does  *)
(*   SpecApply  one POST /api/apply request handled by the web UI server   *)
(*   SpecRollback  buildRollbackPlan applied to bounded port lists, and    *)
(*                 the replay of its plan by runExecutor                   *)
(*   SpecRestore  createRestorePlan applied to bounded snapshots           *)
(*   SpecRace  two jobs calling updateContainerPorts for one container     *)
(*   SpecRollbackApply  concurrent POST /api/rollback/apply requests       *)
(*                                                                         *)
(* Confidence values are scaled by 100 (0.9 is 90, 1.0 is 100).            *)
(***************************************************************************)
EXTENDS Integers, Sequences, FiniteSets, TLC

VARIABLES
    \* ---- plan builder ----
    input,      \* the argument object of buildPlan
    plan,       \* the actions[] of the plan returned by buildPlan
    built,      \* TRUE once buildPlan has returned
    \* ---- executor ----
    opts,       \* the opts object of runExecutor
    xplan,      \* the local variable plan of runExecutor
    pc,         \* position of runExecutor
    idx,        \* loop index i of runExecutor
    results,    \* results[] of runExecutor
    events,     \* events handed to opts.onProgress, in order
    auditLog,   \* lines appended to executor-audit.log
    calls,      \* outbound calls issued by the handlers of this run
    prompts,    \* interactive confirmations requested, in order
    outcome,    \* how runExecutor ended
    trace,      \* handler invocations: <<"start", i>>, <<"return", i>>, <<"throw", i>>
    \* ---- update-container-ports handler ----
    uaction,    \* the action given to updateContainerPorts
    udry,       \* opts.dryRun of that call
    rt,         \* the container runtime's view of the target container
    upc,        \* position of updateContainerPorts
    snap,       \* what the handler has read from the runtime so far
    dcalls,     \* mutating docker calls issued, in order, with their exit
    ustatus,    \* how updateContainerPorts ended
    drift,      \* changes made to the runtime by others during the call
    \* ---- classifier and planning pipeline ----
    world,      \* the loaded state, the overrides and the enforcement intent
    classification, \* classify(state, {overrides}).containers
    cpc,        \* position of the pipeline
    \* ---- web UI server ----
    req,        \* the body of the POST /api/apply request being handled
    jobs,       \* the jobs map, in creation order
    spc,        \* position of the /api/apply handler
    response,   \* HTTP status sent for the request, 0 while none was sent
    xrun,       \* the call of runExecutor made for the request
    snapshots,  \* indexes of the jobs whose snapshot was written to disk
    \* ---- rollback and restore plan builders ----
    rargs,      \* the arguments of buildRollbackPlan or createRestorePlan
    ractions,   \* the actions[] of the plan it returned
    rbuilt,     \* TRUE once the builder has returned
    \* ---- concurrent update-container-ports calls ----
    live,       \* the container runtime's view of the container both jobs target
    jact,       \* the action each job's handler was called with
    jpc,        \* position of each job's handler
    jlog,       \* what the handlers did, in order: <<job, step>>
    \* ---- rollback routes ----
    rjobs,      \* the jobs map of the server, in creation order
    rreqs       \* the POST /api/rollback/apply requests in flight

vars == <<input, plan, built,
          opts, xplan, pc, idx, results, events, auditLog, calls, prompts,
          outcome, trace,
          uaction, udry, rt, upc, snap, dcalls, ustatus, drift,
          world, classification, cpc,
          req, jobs, spc, response, xrun, snapshots,
          rargs, ractions, rbuilt,
          live, jact, jpc, jlog,
          rjobs, rreqs>>

planVars == <<input, plan, built>>
execVars == <<opts, xplan, pc, idx, results, events, auditLog, calls, prompts,
              outcome, trace>>
updVars  == <<uaction, udry, rt, upc, snap, dcalls, ustatus, drift>>
clsVars  == <<world, classification, cpc>>
srvVars  == <<req, jobs, spc, response, xrun, snapshots>>
rbVars   == <<rargs, ractions, rbuilt>>
raceVars == <<live, jact, jpc, jlog>>
rjVars   == <<rjobs, rreqs>>

\* ---------------------------------------------------------------------------
\* Bounds
\* ---------------------------------------------------------------------------

\* longest plan handed to runExecutor
MaxActions == 3

\* most changes other actors make to the runtime during one handler call
MaxDrift == 1

\* longest from[] and to[] of an update-container-ports action
MaxBindings == 2

\* ---------------------------------------------------------------------------
\* Sequence helpers
\* ---------------------------------------------------------------------------

Range(s) == {s[k] : k \in 1..Len(s)}

\* the elements of a set as a list, in some order
RECURSIVE SetToList(_)
SetToList(S) ==
    IF S = {} THEN <<>>
    ELSE LET x == CHOOSE y \in S : TRUE IN <<x>> \o SetToList(S \ {x})

IsPrefix(s, t) == Len(s) <= Len(t) /\ \A k \in 1..Len(s) : s[k] = t[k]

RECURSIVE SeqsUpTo(_, _)
SeqsUpTo(S, n) ==
    IF n = 0 THEN {<<>>}
    ELSE LET shorter == SeqsUpTo(S, n - 1)
         IN  shorter \cup {Append(s, x) : s \in {t \in shorter : Len(t) = n - 1}, x \in S}

\* ===========================================================================
\* PLAN BUILDER (src/unnamed/part_009, src/src/planner/policy/policies.js)
\* ===========================================================================

Names == {"a", "b"}

\* the container names in localeCompare order
NameOrder == <<"a", "b">>

Categories == {"system", "apps", "games", "unknown"}

NoConfidence == -1

B(h, c, p) == [host |-> h, container |-> c, protocol |-> p]

POLICIES ==
    << [id |-> "apps-port-layout",       appliesTo |-> "apps",    mode |-> "incremental", enforceable |-> TRUE],
       [id |-> "games-port-review",      appliesTo |-> "games",   mode |-> "manual",      enforceable |-> TRUE],
       [id |-> "system-protection",      appliesTo |-> "system",  mode |-> "protected",   enforceable |-> TRUE],
       [id |-> "unknown-classification", appliesTo |-> "unknown", mode |-> "manual",      enforceable |-> TRUE] >>

getPoliciesForCategory(category) ==
    SelectSeq(POLICIES, LAMBDA p : p.appliesTo = category)

\* startPort passed to generateIncrementalLayout
StartPort == 5000

\* 0.9, the confidence below which a container goes to manual review
ConfidenceThreshold == 90

\* confidenceUsed of an override
OverrideConfidence == 100

\* state.ports entries of one container -> [{host, container, protocol}]
buildPortMap(state, name) ==
    LET mine == SelectSeq(state.ports, LAMBDA p : p.container = name)
    IN  [k \in 1..Len(mine) |->
            B(mine[k].host, mine[k].containerPort,
              IF mine[k].protocol = "" THEN "tcp" ELSE mine[k].protocol)]

\* every container taken for running
buildContainerMap_AllRunning(state, name) == "running"

\* state.containers entry of a name: "absent", "stopped" or "running"
buildContainerMap(state, name) == state.containers[name]

\* [...containers].sort(localeCompare), as the names in order
SortedNames(containers) ==
    SelectSeq(NameOrder, LAMBDA n : \E k \in 1..Len(containers) : containers[k].name = n)

RECURSIVE LayoutFrom(_, _, _, _)
LayoutFrom(sorted, state, nextPort, acc) ==
    IF sorted = <<>> THEN acc
    ELSE LET name == Head(sorted)
             currentPorts == buildPortMap(state, name)
             tcpPorts == SelectSeq(currentPorts, LAMBDA p : p.protocol = "tcp")
             udpPorts == SelectSeq(currentPorts, LAMBDA p : p.protocol = "udp")
             newTcp == [k \in 1..Len(tcpPorts) |->
                           B(nextPort + k - 1, tcpPorts[k].container, "tcp")]
             newPorts == newTcp \o udpPorts
         IN  LayoutFrom(Tail(sorted), state, nextPort + Len(tcpPorts),
                        [acc EXCEPT ![name] = newPorts])

\* name -> new port list; <<>> stands for "no entry in the assignments map"
generateIncrementalLayout(containers, state, startPort) ==
    LayoutFrom(SortedNames(containers), state, startPort, [n \in Names |-> <<>>])

PortKey(p) == <<p.host, p.container, p.protocol>>

portsChanged(fromPorts, toPorts) ==
    \/ Len(fromPorts) # Len(toPorts)
    \/ {PortKey(fromPorts[k]) : k \in 1..Len(fromPorts)}
         # {PortKey(toPorts[k]) : k \in 1..Len(toPorts)}

\* override?.category: only an object override carries a category
OverrideCategory(override) ==
    IF override.kind = "object" THEN override.category ELSE ""

\* effectiveCategory taken from the classification alone
effectiveCategoryOf_IgnoringOverride(container, overrides) == container.category

effectiveCategoryOf(container, overrides) ==
    IF OverrideCategory(overrides[container.name]) # ""
    THEN OverrideCategory(overrides[container.name])
    ELSE container.category

\* every classification taken for certain
confidenceUsedOf_AlwaysCertain(container, overrides) == OverrideConfidence

confidenceUsedOf(container, overrides) ==
    IF OverrideCategory(overrides[container.name]) # ""
    THEN OverrideConfidence
    ELSE container.confidence

PlanAction(t, name, exec, from, to, pid, status, conf) ==
    [type |-> t, container |-> name, executable |-> exec, from |-> from, to |-> to,
     policyId |-> pid, status |-> status, confidenceUsed |-> conf]

\* the body of the per-container loop of buildPlan
ActionFor(container, in, incrementalAssignments) ==
    LET name == container.name
        effectiveCategory == effectiveCategoryOf(container, in.overrides)
        confidenceUsed == confidenceUsedOf(container, in.overrides)
        policies == getPoliciesForCategory(effectiveCategory)
        hasPrimary == Len(policies) > 0
        userEnforced == in.policyEnforcement[name]
        running == buildContainerMap(in.state, name) = "running"
        currentPorts == buildPortMap(in.state, name)
        desiredPorts == incrementalAssignments[name]
    IN
    IF effectiveCategory = "" \/ effectiveCategory = "unknown" THEN
        PlanAction("manual-review", name, FALSE, <<>>, <<>>,
                   "unknown-classification", "blocking", confidenceUsed)
    ELSE IF confidenceUsed # NoConfidence /\ confidenceUsed < ConfidenceThreshold THEN
        PlanAction("manual-review", name, FALSE, <<>>, <<>>,
                   "low-confidence-classification", "blocking", confidenceUsed)
    ELSE IF effectiveCategory = "games" THEN
        PlanAction("review-game-ports", name, FALSE, <<>>, <<>>,
                   "games-port-review", "blocking", confidenceUsed)
    ELSE IF effectiveCategory = "system" THEN
        PlanAction("no-op", name, FALSE, <<>>, <<>>,
                   "system-protection", "protected", confidenceUsed)
    ELSE IF effectiveCategory = "apps" /\ hasPrimary THEN
        LET primaryPolicy == policies[1]
            enforceable == primaryPolicy.enforceable
            enforced == enforceable /\ userEnforced
            canExecute == enforced /\ running /\ desiredPorts # <<>>
        IN
        IF canExecute THEN
            IF portsChanged(currentPorts, desiredPorts) THEN
                PlanAction("update-container-ports", name, TRUE, currentPorts, desiredPorts,
                           primaryPolicy.id, "enforced", confidenceUsed)
            ELSE
                PlanAction("no-op", name, FALSE, <<>>, <<>>,
                           primaryPolicy.id, "compliant", confidenceUsed)
        ELSE IF enforced /\ ~running THEN
            PlanAction("no-op", name, FALSE, <<>>, <<>>,
                       primaryPolicy.id, "blocked-not-running", confidenceUsed)
        ELSE
            PlanAction("no-op", name, FALSE, <<>>, <<>>, primaryPolicy.id,
                       IF enforceable THEN "enforceable-opt-in" ELSE "present-not-enforced",
                       confidenceUsed)
    ELSE
        PlanAction("no-op", name, FALSE, <<>>, <<>>,
                   "no-policy", "no-action-required", confidenceUsed)

\* the classified-apps containers the user opted in (layout input)
appsWithEnforcement(in) ==
    SelectSeq(in.classification,
              LAMBDA c : c.category = "apps" /\ in.policyEnforcement[c.name])

\* the per-container loop run twice over the classification
buildPlan_EveryContainerTwice(in) ==
    LET withEnf == appsWithEnforcement(in)
        incrementalAssignments ==
            IF Len(withEnf) > 0
            THEN generateIncrementalLayout(withEnf, in.state, StartPort)
            ELSE [n \in Names |-> <<>>]
        once == [k \in 1..Len(in.classification) |->
                    ActionFor(in.classification[k], in, incrementalAssignments)]
    IN  once \o once

buildPlan(in) ==
    LET withEnf == appsWithEnforcement(in)
        incrementalAssignments ==
            IF Len(withEnf) > 0
            THEN generateIncrementalLayout(withEnf, in.state, StartPort)
            ELSE [n \in Names |-> <<>>]
    IN  [k \in 1..Len(in.classification) |->
            ActionFor(in.classification[k], in, incrementalAssignments)]

\* ---- bounded inputs of buildPlan ----

Confidences == {NoConfidence, 80, 95}

Overrides ==
    {[kind |-> "none", category |-> ""], [kind |-> "string", category |-> "system"]}
      \cup {[kind |-> "object", category |-> c] : c \in Categories}

RunStates == {"absent", "stopped", "running"}

\* port lists a container publishes, as state.ports rows without the name
PortChoices ==
    { <<>>,
      << [host |-> 8080, containerPort |-> 80, protocol |-> "tcp"] >>,
      << [host |-> 5000, containerPort |-> 80, protocol |-> ""] >>,
      << [host |-> 8080, containerPort |-> 80, protocol |-> "tcp"],
         [host |-> 9000, containerPort |-> 9000, protocol |-> "udp"] >> }

StatePorts(name, choice) ==
    [k \in 1..Len(choice) |->
        [container |-> name, host |-> choice[k].host,
         containerPort |-> choice[k].containerPort, protocol |-> choice[k].protocol]]

Peer(focus) == CHOOSE n \in Names : n # focus

\* one container (focus) varies over the whole domain; its peer is a classified
\* apps container without override whose opt-in and ports vary
MkInput(focus, first, cat, conf, ov, enf, penf, run, fp, pp) ==
    LET peer == Peer(focus)
        f == [name |-> focus, category |-> cat, confidence |-> conf]
        p == [name |-> peer, category |-> "apps", confidence |-> 95]
    IN  [classification |-> IF first = focus THEN <<f, p>> ELSE <<p, f>>,
         state |-> [containers |-> (focus :> run) @@ (peer :> "running"),
                    ports |-> StatePorts("a", IF focus = "a" THEN fp ELSE pp)
                                \o StatePorts("b", IF focus = "b" THEN fp ELSE pp)],
         overrides |-> (focus :> ov) @@ (peer :> [kind |-> "none", category |-> ""]),
         policyEnforcement |-> (focus :> enf) @@ (peer :> penf)]

\* ---- idle values of the parts a specification does not exercise ----

NoOpts == [apply |-> FALSE, yes |-> FALSE, allowDockerMutation |-> FALSE,
           dryRun |-> "undefined", planObject |-> <<>>, planGiven |-> FALSE,
           planDryRun |-> FALSE, onProgress |-> "none"]

NoPlanYet == [loaded |-> FALSE, actions |-> <<>>]

NoOutcome == [status |-> "none", reason |-> ""]

ExecIdle ==
    /\ opts = NoOpts /\ xplan = NoPlanYet /\ pc = "idle" /\ idx = 0 /\ results = <<>>
    /\ events = <<>> /\ auditLog = <<>> /\ calls = <<>> /\ prompts = <<>>
    /\ outcome = NoOutcome /\ trace = <<>>

NoRuntime == [exists |-> FALSE, running |-> FALSE, ports |-> {}, netMode |-> "default",
              networks |-> {}]

NoSnap == [checkedExists |-> "unchecked", checkedRunning |-> "unchecked",
           inspected |-> FALSE, ports |-> {}, netMode |-> "default", networks |-> {}]

UpdIdle ==
    /\ uaction = [container |-> "", from |-> <<>>, to |-> <<>>]
    /\ udry = FALSE /\ rt = NoRuntime /\ upc = "idle" /\ snap = NoSnap
    /\ dcalls = <<>> /\ ustatus = "none" /\ drift = 0

NoWorld == [containers |-> <<>>,
            overrides |-> [n \in Names |-> [kind |-> "none", category |-> ""]],
            policyEnforcement |-> [n \in Names |-> FALSE]]

ClsIdle == world = NoWorld /\ classification = <<>> /\ cpc = "idle"

NoRequest == [validJson |-> FALSE, allowDockerMutation |-> "undefined",
              confirmPhrase |-> "undefined", dryRun |-> "undefined",
              selectedContainers |-> {}]

SrvIdle ==
    /\ req = NoRequest /\ jobs = <<>> /\ spc = "idle" /\ response = 0
    /\ xrun = [called |-> FALSE] /\ snapshots = <<>>

RbIdle ==
    /\ rargs = [prePorts |-> <<>>, postPorts |-> <<>>, selectedContainers |-> [kind |-> "null"]]
    /\ ractions = <<>> /\ rbuilt = FALSE

RaceIdle ==
    /\ live = [exists |-> FALSE, running |-> FALSE, ports |-> {}]
    /\ jact = <<>> /\ jpc = <<>> /\ jlog = <<>>

RjIdle == rjobs = <<>> /\ rreqs = <<>>

NoInput == [classification |-> <<>>,
            state |-> [containers |-> [n \in Names |-> "absent"], ports |-> <<>>],
            overrides |-> [n \in Names |-> [kind |-> "none", category |-> ""]],
            policyEnforcement |-> [n \in Names |-> FALSE]]

PlanIdle == input = NoInput /\ plan = <<>> /\ built = FALSE

InitPlan ==
    /\ \E focus \in Names, first \in Names, cat \in Categories, conf \in Confidences,
          ov \in Overrides, enf \in BOOLEAN, penf \in BOOLEAN, run \in RunStates,
          fp \in PortChoices, pp \in PortChoices :
            input = MkInput(focus, first, cat, conf, ov, enf, penf, run, fp, pp)
    /\ plan = <<>>
    /\ built = FALSE
    /\ ExecIdle
    /\ UpdIdle
    /\ ClsIdle
    /\ SrvIdle
    /\ RbIdle
    /\ RaceIdle
    /\ RjIdle

\* buildPlan({classification, state, overrides, policyEnforcement})
BuildPlan ==
    /\ ~built
    /\ plan' = buildPlan(input)
    /\ built' = TRUE
    /\ UNCHANGED <<input, execVars, updVars, clsVars, srvVars, rbVars, raceVars, rjVars>>

NextPlan == BuildPlan

SpecPlan == InitPlan /\ [][NextPlan]_vars

\* ===========================================================================
\* CLASSIFIER (src/unnamed/part_006) and the pipeline classify -> buildPlan
\* (src/src/ui/web/public/tabs-ui.js, POST /api/plan)
\* ===========================================================================

\* Text is a sequence of one-character strings, so that includes() and
\* toLowerCase() are computed on the characters.

GAME_KEYWORDS ==
    { <<"7", "d", "t", "d">>,
      <<"s", "e", "v", "e", "n", "-", "d", "a", "y", "s">>,
      <<"v", "a", "l", "h", "e", "i", "m">>,
      <<"m", "i", "n", "e", "c", "r", "a", "f", "t">>,
      <<"f", "a", "c", "t", "o", "r", "i", "o">>,
      <<"s", "a", "t", "i", "s", "f", "a", "c", "t", "o", "r", "y">>,
      <<"c", "o", "n", "a", "n">>,
      <<"r", "u", "s", "t">>,
      <<"i", "c", "a", "r", "u", "s">>,
      <<"a", "r", "k">> }

SYSTEM_KEYWORDS ==
    { <<"t", "r", "a", "e", "f", "i", "k">>,
      <<"n", "g", "i", "n", "x">>,
      <<"c", "a", "d", "d", "y">>,
      <<"p", "o", "r", "t", "-", "m", "c", "p">>,
      <<"d", "o", "c", "k", "e", "r">>,
      <<"w", "a", "t", "c", "h", "t", "o", "w", "e", "r">>,
      <<"u", "n", "r", "a", "i", "d">>,
      <<"g", "r", "a", "f", "a", "n", "a">>,
      <<"p", "r", "o", "m", "e", "t", "h", "e", "u", "s">> }

APP_KEYWORDS ==
    { <<"p", "o", "s", "t", "g", "r", "e", "s">>,
      <<"m", "y", "s", "q", "l">>,
      <<"r", "e", "d", "i", "s">>,
      <<"m", "o", "n", "g", "o">>,
      <<"n", "o", "d", "e">>,
      <<"a", "p", "i">>,
      <<"w", "e", "b">>,
      <<"u", "i">>,
      <<"d", "a", "s", "h", "b", "o", "a", "r", "d">> }

UpperCaseLetters == <<"A", "B", "C", "D", "E", "F", "G", "H", "I", "J", "K", "L", "M", "N", "O", "P", "Q", "R", "S", "T", "U", "V", "W", "X", "Y", "Z">>

LowerCaseLetters == <<"a", "b", "c", "d", "e", "f", "g", "h", "i", "j", "k", "l", "m", "n", "o", "p", "q", "r", "s", "t", "u", "v", "w", "x", "y", "z">>

toLowerCase(ch) ==
    IF \E i \in 1..Len(UpperCaseLetters) : UpperCaseLetters[i] = ch
    THEN LowerCaseLetters[CHOOSE i \in 1..Len(UpperCaseLetters) : UpperCaseLetters[i] = ch]
    ELSE ch

\* String(v || "").toLowerCase(); a null image is the empty text
norm(v) == [k \in 1..Len(v) |-> toLowerCase(v[k])]

\* haystack.includes(needle)
includes(haystack, needle) ==
    \E i \in 0..(Len(haystack) - Len(needle)) :
        \A j \in 1..Len(needle) : haystack[i + j] = needle[j]

containsAny(haystack, needles) == \E n \in needles : includes(haystack, n)

hasUdpPorts(container) ==
    \E k \in 1..Len(container.ports) : norm(container.ports[k].protocol) = <<"u", "d", "p">>

hasTcpOnlyPorts(container) ==
    /\ Len(container.ports) > 0
    /\ \A k \in 1..Len(container.ports) : norm(container.ports[k].protocol) = <<"t", "c", "p">>

\* lowest host port counted as typical for games
GamePortFloor == 20000

gamePortSignal(container) ==
    \E k \in 1..Len(container.ports) : container.ports[k].host >= GamePortFloor

\* a string override ignored, only an object override honoured
getOverrideCategory_ObjectOnly(overrides, containerName) ==
    LET v == overrides[containerName]
    IN  IF v.kind = "object" THEN v.category ELSE ""

\* the category of overrides[containerName], "" for null
getOverrideCategory(overrides, containerName) ==
    LET v == overrides[containerName]
    IN  IF v.kind \in {"string", "object"} THEN v.category ELSE ""

\* the six signals classifyContainer looks at
signals(container) ==
    LET name == norm(container.text)
        image == norm(container.image)
    IN  [game |-> containsAny(name, GAME_KEYWORDS) \/ containsAny(image, GAME_KEYWORDS),
         system |-> containsAny(name, SYSTEM_KEYWORDS) \/ containsAny(image, SYSTEM_KEYWORDS),
         app |-> containsAny(name, APP_KEYWORDS) \/ containsAny(image, APP_KEYWORDS),
         udp |-> hasUdpPorts(container),
         tcpOnly |-> hasTcpOnlyPorts(container),
         gamePort |-> gamePortSignal(container)]

\* the score object after the keyword and port signals, as Object.entries
\* lists it: system, apps, games
scoreEntries(sig) ==
    << <<"system", IF sig.system THEN 2 ELSE 0>>,
       <<"apps", (IF sig.app THEN 1 ELSE 0) + (IF sig.tcpOnly THEN 1 ELSE 0)>>,
       <<"games", (IF sig.game THEN 2 ELSE 0) + (IF sig.udp THEN 2 ELSE 0)
                    + (IF sig.gamePort THEN 1 ELSE 0)>> >>

\* the reasons pushed while scoring, in the order of the code
scoreReasons(sig) ==
    LET when(c, r) == IF c THEN <<r>> ELSE <<>>
    IN  when(sig.game, "matches known game keywords")
        \o when(sig.system, "matches infrastructure keywords")
        \o when(sig.app, "matches application keywords")
        \o when(sig.udp, "exposes UDP ports")
        \o when(sig.tcpOnly, "TCP-only exposure")
        \o when(sig.gamePort, "host ports in typical game range")

\* one entry put into an already sorted list, behind the entries that are
\* not smaller (Array.prototype.sort is stable)
RECURSIVE insertDescending(_, _)
insertDescending(sorted, e) ==
    IF sorted = <<>> THEN <<e>>
    ELSE IF Head(sorted)[2] >= e[2]
         THEN <<Head(sorted)>> \o insertDescending(Tail(sorted), e)
         ELSE <<e>> \o sorted

\* entries.sort((a, b) => b[1] - a[1])
RECURSIVE sortDescending(_)
sortDescending(entries) ==
    IF entries = <<>> THEN <<>>
    ELSE insertDescending(sortDescending(SubSeq(entries, 1, Len(entries) - 1)),
                          entries[Len(entries)])

\* 0.95, the highest confidence a heuristic classification gets
ConfidenceCap == 95

\* 0.2, the confidence of "unknown"
UnknownConfidence == 20

\* 1/5 of a score point, times 100
ConfidencePerPoint == 20

\* a tie for first place accepted as a decision
decisive_TiesWin(ordered) ==
    ordered[1][2] > 0 /\ ordered[1][2] >= ordered[2][2]

\* ordered[0][1] > 0 && ordered[0][1] >= ordered[1][1] + 1
decisive(ordered) ==
    ordered[1][2] > 0 /\ ordered[1][2] >= ordered[2][2] + 1

\* the confidence without the cap
heuristicConfidence_Uncapped(top) == top * ConfidencePerPoint

\* Math.min(0.95, top / 5)
heuristicConfidence(top) ==
    IF top * ConfidencePerPoint < ConfidenceCap THEN top * ConfidencePerPoint
    ELSE ConfidenceCap

classifyContainer(container, overrides) ==
    LET overrideCategory == getOverrideCategory(overrides, container.name)
        sig == signals(container)
        ordered == sortDescending(scoreEntries(sig))
    IN  IF overrideCategory # ""
        THEN [name |-> container.name, category |-> overrideCategory,
              confidence |-> OverrideConfidence, reasons |-> <<"user override">>]
        ELSE IF decisive(ordered)
        THEN [name |-> container.name, category |-> ordered[1][1],
              confidence |-> heuristicConfidence(ordered[1][2]),
              reasons |-> scoreReasons(sig)]
        ELSE [name |-> container.name, category |-> "unknown",
              confidence |-> UnknownConfidence, reasons |-> scoreReasons(sig)]

\* classify(state, {overrides}).containers
classify(state, overrides) ==
    [k \in 1..Len(state.containers) |-> classifyContainer(state.containers[k], overrides)]

\* ---- bounded inputs of the pipeline ----

\* container names as text; all of them sort before "web1"
NameTexts ==
    { <<"m", "c", "-", "s", "e", "r", "v", "e", "r">>,
      <<"d", "b">>,
      <<"s", "p", "a", "r", "k">>,
      <<"T", "r", "a", "e", "f", "i", "k">>,
      <<"a", "p", "i", "-", "u", "i">> }

\* image names as text; the empty text is a null image
ImageTexts ==
    { <<>>,
      <<"i", "t", "z", "g", "/", "m", "i", "n", "e", "c", "r", "a", "f", "t", "-", "s", "e", "r", "v", "e", "r">>,
      <<"n", "g", "i", "n", "x">>,
      <<"r", "e", "d", "i", "s">>,
      <<"b", "u", "s", "y", "b", "o", "x">> }

CP(h, c, proto) == [host |-> h, container |-> c, protocol |-> proto]

\* the ports[] of a container as the runtime feed reports them
ContainerPortChoices ==
    { <<>>,
      << CP(8080, 80, <<"t", "c", "p">>) >>,
      << CP(19132, 19132, <<"u", "d", "p">>) >>,
      << CP(25565, 25565, <<"T", "C", "P">>) >>,
      << CP(8080, 80, <<"t", "c", "p">>), CP(27015, 27015, <<"u", "d", "p">>) >> }

ClassifierOverrides ==
    {[kind |-> "none", category |-> ""]}
      \cup {[kind |-> k, category |-> c] : k \in {"string", "object"}, c \in Categories}

\* the second container of the state, when there is one
Web1 == [name |-> "b", text |-> <<"w", "e", "b", "1">>, image |-> <<"r", "e", "d", "i", "s">>,
         ports |-> << CP(5000, 80, <<"t", "c", "p">>) >>, running |-> TRUE]

\* the protocol of a host-view port row
protocolName(text) ==
    IF norm(text) = <<"u", "d", "p">> THEN "udp"
    ELSE IF norm(text) = <<"t", "c", "p">> THEN "tcp"
    ELSE ""

\* the state.ports rows of the containers
RECURSIVE hostView(_)
hostView(containers) ==
    IF containers = <<>> THEN <<>>
    ELSE LET c == Head(containers)
         IN  [k \in 1..Len(c.ports) |->
                 [container |-> c.name, host |-> c.ports[k].host,
                  containerPort |-> c.ports[k].container,
                  protocol |-> protocolName(c.ports[k].protocol)]]
             \o hostView(Tail(containers))

\* the arguments the pipeline hands to buildPlan
planArguments(w, cls) ==
    [classification |-> cls,
     state |-> [containers |->
                   [n \in Names |->
                       IF \E k \in 1..Len(w.containers) : w.containers[k].name = n
                       THEN LET c == w.containers[CHOOSE k \in 1..Len(w.containers) :
                                                      w.containers[k].name = n]
                            IN  IF c.running THEN "running" ELSE "stopped"
                       ELSE "absent"],
                ports |-> hostView(w.containers)],
     overrides |-> w.overrides,
     policyEnforcement |-> w.policyEnforcement]

InitClassify ==
    /\ \E text \in NameTexts, image \in ImageTexts, ports \in ContainerPortChoices,
          ov \in ClassifierOverrides, run \in BOOLEAN, enf \in BOOLEAN,
          peer \in {"none", "plain", "apps"}, penf \in BOOLEAN :
            /\ (peer = "none" => ~penf)
            /\ world =
                 [containers |->
                     << [name |-> "a", text |-> text, image |-> image, ports |-> ports,
                         running |-> run] >>
                     \o (IF peer = "none" THEN <<>> ELSE <<Web1>>),
                  overrides |-> ("a" :> ov)
                     @@ ("b" :> IF peer = "apps"
                                THEN [kind |-> "object", category |-> "apps"]
                                ELSE [kind |-> "none", category |-> ""]),
                  policyEnforcement |-> ("a" :> enf) @@ ("b" :> penf)]
    /\ classification = <<>>
    /\ cpc = "classify"
    /\ PlanIdle
    /\ ExecIdle
    /\ UpdIdle
    /\ SrvIdle
    /\ RbIdle
    /\ RaceIdle
    /\ RjIdle

\* classify(state, {overrides})
Classify ==
    /\ cpc = "classify"
    /\ classification' = classify(world, world.overrides)
    /\ cpc' = "plan"
    /\ UNCHANGED <<world, planVars, execVars, updVars, srvVars, rbVars, raceVars, rjVars>>

\* buildPlan({classification, state, overrides, policyEnforcement})
PlanClassified ==
    /\ cpc = "plan"
    /\ input' = planArguments(world, classification)
    /\ plan' = buildPlan(input')
    /\ built' = TRUE
    /\ cpc' = "done"
    /\ UNCHANGED <<world, classification, execVars, updVars, srvVars, rbVars, raceVars, rjVars>>

NextClassify == Classify \/ PlanClassified

SpecClassify == InitClassify /\ [][NextClassify]_vars

\* ===========================================================================
\* EXECUTOR (src/src/executor/index.js, audit-log.js, actions/index.js,
\*           actions/reserve-port.js, plan-loader.js)
\* ===========================================================================

\* the action registry: the types that have a handler
actions == {"reserve-port"}

\* preflight's allowedTypes
allowedTypes == {"review-game-ports", "manual-review", "reserve-port", "release-port",
                 "update-container-ports"}

\* action types that occur in the plans given to the executor
PlanTypes == {"reserve-port", "manual-review", "update-container-ports", "resize-volume"}

\* an action of a plan file or plan object; portsOk: action.ports is an array
ExecActions == {[type |-> t, container |-> "a", portsOk |-> TRUE] : t \in PlanTypes}
                 \cup {[type |-> "reserve-port", container |-> "a", portsOk |-> FALSE]}

planHasDockerMutation(p) ==
    \E k \in 1..Len(p.actions) : p.actions[k].type = "update-container-ports"

\* preflight that looks at the first action only
preflightPasses_FirstOnly(p) ==
    Len(p.actions) = 0 \/ p.actions[1].type \in allowedTypes

\* preflight(plan) returns without throwing
preflightPasses(p) ==
    \A k \in 1..Len(p.actions) : p.actions[k].type \in allowedTypes

\* emitProgress(opts, evt): the event is handed to onProgress when it is a
\* function; whatever the observer throws is swallowed
emitProgress(o, log, evt) ==
    IF o.onProgress = "none" THEN log ELSE Append(log, evt)

Evt(t, i) == [type |-> t, index |-> i]

Outcome(st, why) == [status |-> st, reason |-> why]

\* emitProgress without its try/catch: what the observer throws leaves it
observerErrorEscapes_Uncaught(o) == o.onProgress = "throwing"

\* the catch block of emitProgress: nothing the observer throws leaves it
observerErrorEscapes(o) == FALSE

\* the statement after emitProgress(opts, evt): the run goes on at next; an
\* exception leaving emitProgress would end runExecutor there
AfterEmit(next) ==
    IF observerErrorEscapes(opts)
    THEN /\ outcome' = Outcome("error", "observer")
         /\ pc' = "done"
    ELSE /\ pc' = next
         /\ UNCHANGED outcome

\* the apply gate let through without the flag
applyGatePasses_Always(o) == TRUE

\* if (!opts.apply) throw
applyGatePasses(o) == o.apply

\* the allow-mutation gate let through without the flag
mutationGatePasses_Always(o) == TRUE

\* if (!opts.allowDockerMutation) throw
mutationGatePasses(o) == o.allowDockerMutation

\* the loop index advancing by two
NextIndex_Skipping(i) == i + 2

\* i++ of the action loop
NextIndex(i) == i + 1

\* a handler error swallowed after action:error
RethrowAfterError_Swallowed == FALSE

\* throw err in the catch block of the action loop
RethrowAfterError == TRUE

InitExec ==
    /\ \E ap \in BOOLEAN, y \in BOOLEAN, al \in BOOLEAN,
          dr \in {<<"undefined", TRUE>>, <<"undefined", FALSE>>, <<"true", FALSE>>, <<"false", FALSE>>},
          ob \in {"none", "listening", "throwing"},
          given \in BOOLEAN,
          acts \in SeqsUpTo(ExecActions, MaxActions) :
            /\ (~given => acts = <<>>)
            /\ opts = [apply |-> ap, yes |-> y, allowDockerMutation |-> al,
                       dryRun |-> dr[1], planObject |-> acts, planGiven |-> given,
                       planDryRun |-> dr[2], onProgress |-> ob]
    /\ xplan = NoPlanYet
    /\ pc = "start"
    /\ idx = 0
    /\ results = <<>>
    /\ events = <<>>
    /\ auditLog = <<>>
    /\ calls = <<>>
    /\ prompts = <<>>
    /\ outcome = NoOutcome
    /\ trace = <<>>
    /\ PlanIdle
    /\ UpdIdle
    /\ ClsIdle
    /\ SrvIdle
    /\ RbIdle
    /\ RaceIdle
    /\ RjIdle

\* runExecutor, lines 106-110: the apply gate and job:start
CheckApply ==
    /\ pc = "start"
    /\ IF ~applyGatePasses(opts)
       THEN /\ outcome' = Outcome("error", "no-apply")
            /\ pc' = "done"
            /\ UNCHANGED events
       ELSE /\ events' = emitProgress(opts, events, Evt("job:start", -1))
            /\ AfterEmit("load")
    /\ UNCHANGED <<opts, xplan, idx, results, auditLog, calls, prompts, trace>>
    /\ UNCHANGED <<planVars, updVars, clsVars, srvVars, rbVars, raceVars, rjVars>>

\* runExecutor, lines 112-123: loadPlan, dryRun inheritance, plan:loaded
LoadPlan ==
    /\ pc = "load"
    /\ IF ~opts.planGiven
       THEN /\ outcome' = Outcome("error", "no-plan")
            /\ pc' = "done"
            /\ UNCHANGED <<opts, xplan, events>>
       ELSE /\ xplan' = [loaded |-> TRUE, actions |-> opts.planObject]
            /\ opts' = IF opts.dryRun = "undefined" /\ opts.planDryRun
                       THEN [opts EXCEPT !.dryRun = "true"]
                       ELSE opts
            /\ events' = emitProgress(opts, events, Evt("plan:loaded", -1))
            /\ AfterEmit("preflight")
    /\ UNCHANGED <<idx, results, auditLog, calls, prompts, trace>>
    /\ UNCHANGED <<planVars, updVars, clsVars, srvVars, rbVars, raceVars, rjVars>>

\* runExecutor, lines 125-127: preflight and preflight:complete
Preflight ==
    /\ pc = "preflight"
    /\ IF ~preflightPasses(xplan)
       THEN /\ outcome' = Outcome("error", "preflight")
            /\ pc' = "done"
            /\ UNCHANGED events
       ELSE /\ events' = emitProgress(opts, events, Evt("preflight:complete", -1))
            /\ AfterEmit("confirm")
    /\ UNCHANGED <<opts, xplan, idx, results, auditLog, calls, prompts, trace>>
    /\ UNCHANGED <<planVars, updVars, clsVars, srvVars, rbVars, raceVars, rjVars>>

\* runExecutor, lines 129-136: the general confirmation
ConfirmApply ==
    /\ pc = "confirm"
    /\ IF opts.yes
       THEN /\ pc' = "gate"
            /\ UNCHANGED <<prompts, events, auditLog, outcome>>
       ELSE \E ok \in BOOLEAN :
            /\ prompts' = Append(prompts, "apply")
            /\ IF ok
               THEN /\ pc' = "gate"
                    /\ UNCHANGED <<events, auditLog, outcome>>
               ELSE /\ events' = emitProgress(opts, events, Evt("job:aborted", -1))
                    /\ IF observerErrorEscapes(opts)
                       THEN /\ AfterEmit("done")
                            /\ UNCHANGED auditLog
                       ELSE /\ auditLog' = Append(auditLog, Outcome("aborted", "apply-not-confirmed"))
                            /\ outcome' = Outcome("aborted", "apply-not-confirmed")
                            /\ pc' = "done"
    /\ UNCHANGED <<opts, xplan, idx, results, calls, trace>>
    /\ UNCHANGED <<planVars, updVars, clsVars, srvVars, rbVars, raceVars, rjVars>>

\* runExecutor, lines 138-153: the allow-mutation gate and the downtime
\* confirmation
MutationGate ==
    /\ pc = "gate"
    /\ IF ~planHasDockerMutation(xplan)
       THEN /\ pc' = "loop"
            /\ UNCHANGED <<prompts, events, auditLog, outcome>>
       ELSE IF ~mutationGatePasses(opts)
       THEN /\ outcome' = Outcome("error", "mutation-not-allowed")
            /\ pc' = "done"
            /\ UNCHANGED <<prompts, events, auditLog>>
       ELSE \E ok \in BOOLEAN :
            /\ prompts' = Append(prompts, "downtime")
            /\ IF ok
               THEN /\ pc' = "loop"
                    /\ UNCHANGED <<events, auditLog, outcome>>
               ELSE /\ events' = emitProgress(opts, events, Evt("job:aborted", -1))
                    /\ IF observerErrorEscapes(opts)
                       THEN /\ AfterEmit("done")
                            /\ UNCHANGED auditLog
                       ELSE /\ auditLog' = Append(auditLog, Outcome("aborted", "docker-downtime-not-confirmed"))
                            /\ outcome' = Outcome("aborted", "docker-downtime-not-confirmed")
                            /\ pc' = "done"
    /\ UNCHANGED <<opts, xplan, idx, results, calls, trace>>
    /\ UNCHANGED <<planVars, updVars, clsVars, srvVars, rbVars, raceVars, rjVars>>

\* runExecutor, lines 157-171: the loop test, the handler lookup, action:start
\* and the call of the handler
StartAction ==
    /\ pc = "loop"
    /\ idx < Len(xplan.actions)
    /\ IF xplan.actions[idx + 1].type \notin actions
       THEN /\ outcome' = Outcome("error", "no-handler")
            /\ pc' = "done"
            /\ UNCHANGED <<events, trace>>
       ELSE /\ events' = emitProgress(opts, events, Evt("action:start", idx))
            /\ AfterEmit("handler")
            /\ trace' = IF observerErrorEscapes(opts)
                         THEN trace
                         ELSE Append(trace, <<"start", idx>>)
    /\ UNCHANGED <<opts, xplan, idx, results, auditLog, calls, prompts>>
    /\ UNCHANGED <<planVars, updVars, clsVars, srvVars, rbVars, raceVars, rjVars>>

\* the handler returned: runExecutor, lines 172-180
Returned(status) ==
    /\ results' = Append(results, [action |-> xplan.actions[idx + 1].type,
                                   container |-> xplan.actions[idx + 1].container,
                                   result |-> status])
    /\ events' = emitProgress(opts, events, Evt("action:success", idx))
    /\ trace' = Append(trace, <<"return", idx>>)
    /\ AfterEmit("loop")
    /\ idx' = IF observerErrorEscapes(opts) THEN idx ELSE NextIndex(idx)

\* the handler threw: runExecutor, lines 181-191
Threw ==
    /\ events' = emitProgress(opts, events, Evt("action:error", idx))
    /\ trace' = Append(trace, <<"throw", idx>>)
    /\ IF observerErrorEscapes(opts)
       THEN /\ AfterEmit("done")
            /\ UNCHANGED idx
       ELSE IF RethrowAfterError
       THEN /\ outcome' = Outcome("error", "handler")
            /\ pc' = "done"
            /\ UNCHANGED idx
       ELSE /\ idx' = NextIndex(idx)
            /\ pc' = "loop"
            /\ UNCHANGED outcome
    /\ UNCHANGED results

\* reservePort(action, opts) until it returns or throws
RunHandler ==
    /\ pc = "handler"
    /\ LET action == xplan.actions[idx + 1] IN
       IF ~action.portsOk
       THEN Threw /\ UNCHANGED calls
       ELSE IF opts.dryRun = "true"
       THEN Returned("validated") /\ UNCHANGED calls
       ELSE \E ok \in BOOLEAN :
            /\ calls' = Append(calls, [op |-> "allocate", container |-> action.container,
                                       index |-> idx, ok |-> ok])
            /\ IF ok THEN Returned("allocated") ELSE Threw
    /\ UNCHANGED <<opts, xplan, auditLog, prompts>>
    /\ UNCHANGED <<planVars, updVars, clsVars, srvVars, rbVars, raceVars, rjVars>>

\* runExecutor, lines 194-206: after the loop
Finish ==
    /\ pc = "loop"
    /\ idx >= Len(xplan.actions)
    /\ auditLog' = Append(auditLog, Outcome("success", ""))
    /\ events' = emitProgress(opts, events, Evt("job:complete", -1))
    /\ IF observerErrorEscapes(opts)
       THEN AfterEmit("done")
       ELSE /\ outcome' = Outcome("success", "")
            /\ pc' = "done"
    /\ UNCHANGED <<opts, xplan, idx, results, calls, prompts, trace>>
    /\ UNCHANGED <<planVars, updVars, clsVars, srvVars, rbVars, raceVars, rjVars>>

NextExec ==
    \/ CheckApply
    \/ LoadPlan
    \/ Preflight
    \/ ConfirmApply
    \/ MutationGate
    \/ StartAction
    \/ RunHandler
    \/ Finish

SpecExec == InitExec /\ [][NextExec]_vars

\* ---- runExecutor as a function of its arguments and of the answers it
\*      gets, for the callers that await it ----

\* what a run leaves behind apart from the events handed to the observer
RunRecord(o, tr, al, cl, rs, pr) ==
    [outcome |-> o, trace |-> tr, auditLog |-> al, calls |-> cl, results |-> rs,
     prompts |-> pr]

\* the action loop of a run without observer, from action i on; oks are the
\* answers of the allocation service to the calls still to come
RECURSIVE SilentLoop(_, _, _, _, _)
SilentLoop(o, i, oks, r, dry) ==
    IF i >= Len(o.planObject)
    THEN [r EXCEPT !.outcome = Outcome("success", ""),
                   !.auditLog = Append(@, Outcome("success", ""))]
    ELSE LET a == o.planObject[i + 1]
             started == Append(r.trace, <<"start", i>>)
             done(st) == [action |-> a.type, container |-> a.container, result |-> st]
         IN
         IF a.type \notin actions
         THEN [r EXCEPT !.outcome = Outcome("error", "no-handler")]
         ELSE IF ~a.portsOk
         THEN [r EXCEPT !.outcome = Outcome("error", "handler"),
                        !.trace = Append(started, <<"throw", i>>)]
         ELSE IF dry
         THEN SilentLoop(o, i + 1, oks,
                         [r EXCEPT !.trace = Append(started, <<"return", i>>),
                                   !.results = Append(@, done("validated"))], dry)
         ELSE IF oks = <<>>
         THEN [r EXCEPT !.outcome = Outcome("pending", "")]
         ELSE LET call == [op |-> "allocate", container |-> a.container,
                           index |-> i, ok |-> Head(oks)]
              IN IF Head(oks)
                 THEN SilentLoop(o, i + 1, Tail(oks),
                                 [r EXCEPT !.trace = Append(started, <<"return", i>>),
                                           !.calls = Append(@, call),
                                           !.results = Append(@, done("allocated"))], dry)
                 ELSE [r EXCEPT !.outcome = Outcome("error", "handler"),
                                !.calls = Append(@, call),
                                !.trace = Append(started, <<"throw", i>>)]

\* runExecutor(o) with onProgress undefined, the user answering the two
\* confirmations with applyOk and downOk and the allocation service with oks
SilentRun(o, applyOk, downOk, oks) ==
    LET none(why) == RunRecord(Outcome("error", why), <<>>, <<>>, <<>>, <<>>, <<>>)
        p == [actions |-> o.planObject]
        dry == o.dryRun = "true" \/ (o.dryRun = "undefined" /\ o.planDryRun)
        asked1 == IF o.yes THEN <<>> ELSE <<"apply">>
        asked2 == IF planHasDockerMutation(p) THEN Append(asked1, "downtime") ELSE asked1
        aborted(why, pr) == RunRecord(Outcome("aborted", why), <<>>,
                                      <<Outcome("aborted", why)>>, <<>>, <<>>, pr)
    IN
    IF ~o.apply THEN none("no-apply")
    ELSE IF ~o.planGiven THEN none("no-plan")
    ELSE IF \E k \in 1..Len(p.actions) : p.actions[k].type \notin allowedTypes
    THEN none("preflight")
    ELSE IF ~o.yes /\ ~applyOk THEN aborted("apply-not-confirmed", asked1)
    ELSE IF planHasDockerMutation(p) /\ ~o.allowDockerMutation
    THEN RunRecord(Outcome("error", "mutation-not-allowed"), <<>>, <<>>, <<>>, <<>>, asked1)
    ELSE IF planHasDockerMutation(p) /\ ~downOk
    THEN aborted("docker-downtime-not-confirmed", asked2)
    ELSE SilentLoop(o, 0, oks,
                    RunRecord(NoOutcome, <<>>, <<>>, <<>>, <<>>, asked2), dry)

\* ===========================================================================
\* UPDATE-CONTAINER-PORTS HANDLER
\* (src/src/executor/actions/update-container-ports.js, docker/docker-cli.js)
\* ===========================================================================

\* highest valid port number
MaxPortNumber == 65535

\* String(p || "").toLowerCase()
normProto(p) ==
    CASE p = "TCP" -> "tcp"
      [] p = "UDP" -> "udp"
      [] OTHER -> p

\* portFlag(binding) returns a flag instead of throwing
portFlagValid(binding) ==
    /\ normProto(binding.protocol) \in {"tcp", "udp"}
    /\ binding.host >= 1 /\ binding.host <= MaxPortNumber
    /\ binding.container >= 1 /\ binding.container <= MaxPortNumber

\* the string `${host}:${cont}/${proto}` as a tuple
portFlag(binding) == <<binding.host, binding.container, normProto(binding.protocol)>>

\* the Set of keys samePortList builds from a list
PortKeySet(list) == {portFlag(list[k]) : k \in 1..Len(list)}

\* samePortList comparing the two sizes only
samePortList_SizeOnly(a, b) == Cardinality(PortKeySet(a)) = Cardinality(PortKeySet(b))

samePortList(a, b) ==
    /\ Cardinality(PortKeySet(a)) = Cardinality(PortKeySet(b))
    /\ \A v \in PortKeySet(a) : v \in PortKeySet(b)

\* reqArray(v, name) returns instead of throwing
reqArray(v) == Len(v) > 0

\* the order in which Object.keys lists attached networks
NetOrder == <<"bridge", "appnet", "backend", "cache">>

\* additionalNetworks of buildCreateArgsFromInspect
additionalNetworks(inspect) ==
    SelectSeq(NetOrder, LAMBDA n : n \in inspect.networks /\ n # inspect.netMode)

\* the running test skipped
runningCheckPasses_Always(running) == TRUE

\* if (!running) throw
runningCheckPasses(running) == running

\* the recreate sequence with start before the network reconnects
RecreateSteps_StartBeforeConnect == <<"stop", "remove", "create", "start", "connect">>

\* stop, remove, create, reconnect networks, start (lines 250-260)
RecreateSteps == <<"stop", "remove", "create", "connect", "start">>

StepIndex(op) == CHOOSE k \in 1..Len(RecreateSteps) : RecreateSteps[k] = op

\* the step after op, "return" after the last one
After(op) ==
    IF StepIndex(op) = Len(RecreateSteps) THEN "return"
    ELSE RecreateSteps[StepIndex(op) + 1]

ConnectsDone(log) == Len(SelectSeq(log, LAMBDA c : c.op = "connect" /\ c.ok))

\* where the handler stands after op succeeded; the connect loop is left when
\* every additional network is connected
Advance(op, log) ==
    LET pendingLeft == ConnectsDone(log) < Len(additionalNetworks(snap))
        n == IF op = "connect" /\ pendingLeft THEN "connect" ELSE After(op)
    IN  IF n = "connect" /\ ~pendingLeft THEN After("connect") ELSE n

\* ---- bounded inputs ----

FromBindings == {B(8080, 80, "tcp"), B(5000, 80, "tcp"), B(8080, 80, "TCP")}

ToBindings == {B(5000, 80, "tcp"), B(0, 80, "tcp")}

\* what the target container publishes
PublishedChoices == {{}, {B(8080, 80, "tcp")}, {B(8080, 80, "tcp"), B(5000, 80, "tcp")}}

\* HostConfig.NetworkMode and the keys of NetworkSettings.Networks
NetworkChoices ==
    { [netMode |-> "default", networks |-> {"bridge"}],
      [netMode |-> "appnet",  networks |-> {"appnet"}],
      [netMode |-> "appnet",  networks |-> {"appnet", "backend", "cache"}] }

InitUpd ==
    /\ \E c \in {"", "a"},
          from \in SeqsUpTo(FromBindings, MaxBindings),
          to \in SeqsUpTo(ToBindings, MaxBindings) :
            uaction = [container |-> c, from |-> from, to |-> to]
    /\ udry \in BOOLEAN
    /\ \E st \in {"absent", "stopped", "running"}, pub \in PublishedChoices,
          net \in NetworkChoices :
            rt = [exists |-> st # "absent", running |-> st = "running",
                  ports |-> IF st = "absent" THEN {} ELSE pub,
                  netMode |-> net.netMode, networks |-> net.networks]
    /\ upc = "entry"
    /\ snap = NoSnap
    /\ dcalls = <<>>
    /\ ustatus = "none"
    /\ drift = 0
    /\ PlanIdle
    /\ ExecIdle
    /\ ClsIdle
    /\ SrvIdle
    /\ RbIdle
    /\ RaceIdle
    /\ RjIdle

Fail(why) ==
    /\ ustatus' = why
    /\ upc' = "done"

\* updateContainerPorts, lines 201-220: argument checks and the dry-run return
U_Validate ==
    /\ upc = "entry"
    /\ IF uaction.container = "" THEN Fail("error:bad-action")
       ELSE IF ~reqArray(uaction.from) \/ ~reqArray(uaction.to) THEN Fail("error:bad-action")
       ELSE IF udry
       THEN IF \A k \in 1..Len(uaction.to) : portFlagValid(uaction.to[k])
            THEN /\ ustatus' = "validated"
                 /\ upc' = "done"
            ELSE Fail("error:bad-port")
       ELSE /\ upc' = "exists"
            /\ UNCHANGED ustatus
    /\ UNCHANGED <<uaction, udry, rt, snap, dcalls, drift>>
    /\ UNCHANGED <<planVars, execVars, clsVars, srvVars, rbVars, raceVars, rjVars>>

\* lines 223-224: Docker.containerExists
U_Exists ==
    /\ upc = "exists"
    /\ snap' = [snap EXCEPT !.checkedExists = IF rt.exists THEN "yes" ELSE "no"]
    /\ IF ~rt.exists THEN Fail("error:not-found")
       ELSE /\ upc' = "running"
            /\ UNCHANGED ustatus
    /\ UNCHANGED <<uaction, udry, rt, dcalls, drift>>
    /\ UNCHANGED <<planVars, execVars, clsVars, srvVars, rbVars, raceVars, rjVars>>

\* lines 226-229: Docker.isRunning; docker inspect fails on a missing container
U_Running ==
    /\ upc = "running"
    /\ snap' = [snap EXCEPT !.checkedRunning = IF rt.exists /\ rt.running THEN "yes" ELSE "no"]
    /\ IF ~rt.exists THEN Fail("error:docker")
       ELSE IF ~runningCheckPasses(rt.running) THEN Fail("error:not-running")
       ELSE /\ upc' = "inspect"
            /\ UNCHANGED ustatus
    /\ UNCHANGED <<uaction, udry, rt, dcalls, drift>>
    /\ UNCHANGED <<planVars, execVars, clsVars, srvVars, rbVars, raceVars, rjVars>>

\* lines 232-247: Docker.inspectContainer, the from check, the new port flags
\* and the create arguments.  What a stopped container reports as published
\* is the runtime's choice: nothing, or its configured bindings.
U_Inspect ==
    /\ upc = "inspect"
    /\ IF ~rt.exists
       THEN /\ Fail("error:docker")
            /\ UNCHANGED snap
       ELSE \E reported \in (IF rt.running THEN {rt.ports} ELSE {{}, rt.ports}) :
            LET currentPublished == CHOOSE l \in SeqsUpTo(reported, Cardinality(reported)) :
                                        Range(l) = reported
            IN
            /\ snap' = [snap EXCEPT !.inspected = TRUE, !.ports = reported,
                                    !.netMode = rt.netMode, !.networks = rt.networks]
            /\ IF ~samePortList(currentPublished, uaction.from)
               THEN Fail("error:preflight-mismatch")
               ELSE IF \E k \in 1..Len(uaction.to) : ~portFlagValid(uaction.to[k])
               THEN Fail("error:bad-port")
               ELSE /\ upc' = RecreateSteps[1]
                    /\ UNCHANGED ustatus
    /\ UNCHANGED <<uaction, udry, rt, dcalls, drift>>
    /\ UNCHANGED <<planVars, execVars, clsVars, srvVars, rbVars, raceVars, rjVars>>

\* one mutating docker call and what follows it: the next step, the return of
\* {status: "success"} after the last one, or the error of a failed call
DockerCall(op, arg, canSucceed, effect) ==
    \E ok \in (IF canSucceed THEN BOOLEAN ELSE {FALSE}) :
        LET log == Append(dcalls, [op |-> op, arg |-> arg, ok |-> ok]) IN
        /\ dcalls' = log
        /\ IF ok
           THEN /\ rt' = effect
                /\ IF Advance(op, log) = "return"
                   THEN /\ ustatus' = "success"
                        /\ upc' = "done"
                   ELSE /\ upc' = Advance(op, log)
                        /\ UNCHANGED ustatus
           ELSE /\ Fail("error:docker")
                /\ UNCHANGED rt
        /\ UNCHANGED <<uaction, udry, snap, drift>>
        /\ UNCHANGED <<planVars, execVars, clsVars, srvVars, rbVars, raceVars, rjVars>>

\* line 250: Docker.stop
U_Stop ==
    /\ upc = "stop"
    /\ DockerCall("stop", uaction.container, rt.exists, [rt EXCEPT !.running = FALSE])

\* line 251: Docker.remove; docker rm refuses a running container
U_Remove ==
    /\ upc = "remove"
    /\ DockerCall("remove", uaction.container, rt.exists /\ ~rt.running,
                  [rt EXCEPT !.exists = FALSE, !.running = FALSE, !.ports = {},
                             !.networks = {}])

\* line 252: Docker.create with the -p flags of action.to and the primary network
U_Create ==
    /\ upc = "create"
    /\ DockerCall("create", [k \in 1..Len(uaction.to) |-> portFlag(uaction.to[k])],
                  ~rt.exists,
                  [exists |-> TRUE, running |-> FALSE,
                   ports |-> {B(uaction.to[k].host, uaction.to[k].container,
                                normProto(uaction.to[k].protocol)) : k \in 1..Len(uaction.to)},
                   netMode |-> snap.netMode,
                   networks |-> IF snap.netMode = "default" THEN {"bridge"}
                                ELSE {snap.netMode}])

\* lines 255-258: docker network connect for the next additional network;
\* connecting a network the container is already on fails
U_Connect ==
    /\ upc = "connect"
    /\ LET net == additionalNetworks(snap)[ConnectsDone(dcalls) + 1] IN
       DockerCall("connect", net, rt.exists /\ net \notin rt.networks,
                  [rt EXCEPT !.networks = @ \cup {net}])

\* line 260: Docker.start
U_Start ==
    /\ upc = "start"
    /\ DockerCall("start", uaction.container, rt.exists, [rt EXCEPT !.running = TRUE])

\* another actor stops, removes or republishes the target container while
\* the handler is between two of its calls
EnvDrift ==
    /\ upc \notin {"idle", "done"}
    /\ drift < MaxDrift
    /\ rt.exists
    /\ \/ rt' = [rt EXCEPT !.running = ~rt.running]
       \/ rt' = [rt EXCEPT !.exists = FALSE, !.running = FALSE, !.ports = {}, !.networks = {}]
       \/ \E pub \in PublishedChoices : pub # rt.ports /\ rt' = [rt EXCEPT !.ports = pub]
    /\ drift' = drift + 1
    /\ UNCHANGED <<uaction, udry, upc, snap, dcalls, ustatus>>
    /\ UNCHANGED <<planVars, execVars, clsVars, srvVars, rbVars, raceVars, rjVars>>

NextUpd ==
    \/ U_Validate
    \/ U_Exists
    \/ U_Running
    \/ U_Inspect
    \/ U_Stop
    \/ U_Remove
    \/ U_Create
    \/ U_Connect
    \/ U_Start
    \/ EnvDrift

SpecUpd == InitUpd /\ [][NextUpd]_vars

\* ===========================================================================
\* WEB UI SERVER, POST /api/apply (src/src/ui/web/public/tabs-ui.js from line
\* 505 on, src/src/snapshots/snapshot-manager.js)
\* ===========================================================================

\* The field confirmPhrase of a request is "exact" when it is the phrase
\* "I UNDERSTAND THIS WILL CAUSE DOWNTIME", else "other" or "undefined".

\* a JSON value of the body used as a condition
truthy(v) == v = "true"

\* createJob(meta)
createJob(selectedContainers) ==
    [status |-> "running", selectedContainers |-> selectedContainers,
     result |-> "", error |-> "", preState |-> FALSE, postState |-> FALSE]

\* the opts object the route hands to runExecutor
executorOptions(r, executablePlan) ==
    [apply |-> TRUE, yes |-> TRUE,
     allowDockerMutation |-> IF truthy(r.dryRun) THEN FALSE ELSE truthy(r.allowDockerMutation),
     dryRun |-> IF r.dryRun = "true" THEN "true" ELSE "false",
     planObject |-> [k \in 1..Len(executablePlan) |->
                       [type |-> executablePlan[k].type,
                        container |-> executablePlan[k].container, portsOk |-> TRUE]],
     planGiven |-> TRUE, planDryRun |-> FALSE, onProgress |-> "listening"]

\* the worlds the server finds: one container, or two with an apps override
\* on the second; overrides and policyEnforcement are those of the request
ApplyWorlds ==
    { [containers |->
          << [name |-> "a", text |-> text, image |-> <<"b", "u", "s", "y", "b", "o", "x">>, ports |-> ports,
              running |-> run] >>
          \o (IF peer THEN <<Web1>> ELSE <<>>),
       overrides |-> ("a" :> ov)
          @@ ("b" :> IF peer THEN [kind |-> "object", category |-> "apps"]
                             ELSE [kind |-> "none", category |-> ""]),
       policyEnforcement |-> ("a" :> enf) @@ ("b" :> peer)] :
        text \in {<<"d", "b">>, <<"a", "p", "i", "-", "u", "i">>},
        ports \in {<<>>, << CP(8080, 80, <<"t", "c", "p">>) >>},
        ov \in {[kind |-> "none", category |-> ""], [kind |-> "string", category |-> "apps"],
                [kind |-> "object", category |-> "apps"]},
        run \in BOOLEAN, enf \in BOOLEAN, peer \in BOOLEAN }

ApplyRequests ==
    { NoRequest }
      \cup { [validJson |-> TRUE, allowDockerMutation |-> al, confirmPhrase |-> ph,
              dryRun |-> dr, selectedContainers |-> sel] :
                al \in {"undefined", "true", "false"},
                ph \in {"undefined", "exact", "other"},
                dr \in {"undefined", "true", "false"},
                sel \in {{}, {"a"}, {"a", "b"}} }

InitApply ==
    /\ world \in ApplyWorlds
    /\ req \in ApplyRequests
    /\ classification = <<>>
    /\ cpc = "idle"
    /\ jobs = <<>>
    /\ spc = "received"
    /\ response = 0
    /\ xrun = [called |-> FALSE]
    /\ snapshots = <<>>
    /\ PlanIdle
    /\ ExecIdle
    /\ UpdIdle
    /\ RbIdle
    /\ RaceIdle
    /\ RjIdle

\* failJob(job, err) on the job of this request
failJob(why) ==
    /\ jobs' = [jobs EXCEPT ![Len(jobs)].status = "failed", ![Len(jobs)].error = why]
    /\ spc' = "done"

\* lines 822-840: the body is parsed, the job created, 202 sent
ApplyReceive ==
    /\ spc = "received"
    /\ IF ~req.validJson
       THEN /\ response' = 400
            /\ spc' = "done"
            /\ UNCHANGED jobs
       ELSE /\ jobs' = Append(jobs, createJob(req.selectedContainers))
            /\ response' = 202
            /\ spc' = "planning"
    /\ UNCHANGED <<req, xrun, snapshots, clsVars, planVars, execVars, updVars, rbVars, raceVars, rjVars>>

\* lines 842-870: loadState, classify, buildPlan
ApplyPlan ==
    /\ spc = "planning"
    /\ \E loaded \in BOOLEAN :
         IF ~loaded
         THEN /\ failJob("loadState")
              /\ UNCHANGED <<classification, planVars>>
         ELSE /\ classification' = classify(world, world.overrides)
              /\ input' = planArguments(world, classification')
              /\ plan' = buildPlan(input')
              /\ built' = TRUE
              /\ jobs' = [jobs EXCEPT ![Len(jobs)].preState = TRUE]
              /\ spc' = "executing"
    /\ UNCHANGED <<req, response, xrun, snapshots, world, cpc, execVars, updVars, rbVars, raceVars, rjVars>>

\* lines 859-879: the executable actions are handed to runExecutor
ApplyExecute ==
    /\ spc = "executing"
    /\ \E downOk \in BOOLEAN :
         LET executablePlan == SelectSeq(plan, LAMBDA a : a.executable)
             o == executorOptions(req, executablePlan)
             r == SilentRun(o, TRUE, downOk, <<>>)
         IN  /\ xrun' = [called |-> TRUE, opts |-> o, run |-> r]
             /\ IF r.outcome.status = "error"
                THEN failJob(r.outcome.reason)
                ELSE /\ jobs' = [jobs EXCEPT ![Len(jobs)].result = r.outcome.status]
                     /\ spc' = "finishing"
    /\ UNCHANGED <<req, response, snapshots, clsVars, planVars, execVars, updVars, rbVars, raceVars, rjVars>>

\* saveJobSnapshot(job): job.dryRun is never set, pre and post state are
\* there; what the file system refuses is caught by the route
snapshotWritten(job, diskOk) == job.preState /\ job.postState /\ diskOk

\* lines 881-893: the post state is loaded, the job completed, the snapshot saved
ApplyFinish ==
    /\ spc = "finishing"
    /\ \E loaded \in BOOLEAN, diskOk \in BOOLEAN :
         IF ~loaded
         THEN /\ failJob("loadState")
              /\ UNCHANGED snapshots
         ELSE /\ jobs' = [jobs EXCEPT ![Len(jobs)].postState = TRUE,
                                       ![Len(jobs)].status = "completed"]
              /\ snapshots' = IF snapshotWritten(jobs'[Len(jobs)], diskOk)
                               THEN Append(snapshots, Len(jobs)) ELSE snapshots
              /\ spc' = "done"
    /\ UNCHANGED <<req, response, xrun, clsVars, planVars, execVars, updVars, rbVars, raceVars, rjVars>>

NextApply == ApplyReceive \/ ApplyPlan \/ ApplyExecute \/ ApplyFinish

SpecApply == InitApply /\ [][NextApply]_vars

\* ===========================================================================
\* ROLLBACK PLAN BUILDER (src/unnamed/part_011)
\* ===========================================================================

\* longest port list of a snapshot
MaxPorts == 2

\* POST /api/rollback/apply requests in flight at once
MaxRequests == 2

\* null in the from or to field of a rollback action
NoHost == 0

\* key(p): container, protocol and container port
key(p) == <<p.container, p.protocol, p.containerPort>>

\* Map.prototype.set on a map kept as its entries in insertion order: the
\* value of a key already there is replaced in place
mapSet(m, k, v) ==
    IF \E i \in 1..Len(m) : m[i][1] = k
    THEN [i \in 1..Len(m) |-> IF m[i][1] = k THEN <<k, v>> ELSE m[i]]
    ELSE Append(m, <<k, v>>)

mapHas(m, k) == \E i \in 1..Len(m) : m[i][1] = k

mapGet(m, k) == m[CHOOSE i \in 1..Len(m) : m[i][1] = k][2]

\* The argument selectedContainers is [kind |-> "array", items |-> S] for an
\* array holding the names S, and [kind |-> "null"] for null or undefined.

\* new Set(selectedContainers || [])
allowedSet(selectedContainers) ==
    IF selectedContainers.kind = "array" THEN selectedContainers.items ELSE {}

\* every container let through
isAllowed_Everyone(allowed, p) == TRUE

\* allowed.has(p.container)
isAllowed(allowed, p) == p.container \in allowed

\* the loop filling preMap or postMap
RECURSIVE fillMap(_, _, _)
fillMap(ports, allowed, m) ==
    IF ports = <<>> THEN m
    ELSE fillMap(Tail(ports), allowed,
                 IF isAllowed(allowed, Head(ports))
                 THEN mapSet(m, key(Head(ports)), Head(ports))
                 ELSE m)

RollbackAction(c, proto, from, to) ==
    [type |-> "update-container-ports", container |-> c, protocol |-> proto,
     from |-> from, to |-> to]

\* the REMOVE loop over postMap
RECURSIVE removals(_, _)
removals(postEntries, preMap) ==
    IF postEntries = <<>> THEN <<>>
    ELSE LET k == Head(postEntries)[1]
             post == Head(postEntries)[2]
         IN  (IF ~mapHas(preMap, k)
              THEN <<RollbackAction(post.container, post.protocol, post.host, NoHost)>>
              ELSE <<>>)
             \o removals(Tail(postEntries), preMap)

\* the ADD or CHANGE loop over preMap
RECURSIVE restorations(_, _)
restorations(preEntries, postMap) ==
    IF preEntries = <<>> THEN <<>>
    ELSE LET k == Head(preEntries)[1]
             pre == Head(preEntries)[2]
         IN  (IF ~mapHas(postMap, k)
              THEN <<RollbackAction(pre.container, pre.protocol, NoHost, pre.host)>>
              ELSE IF mapGet(postMap, k).host # pre.host
              THEN <<RollbackAction(pre.container, pre.protocol,
                                    mapGet(postMap, k).host, pre.host)>>
              ELSE <<>>)
             \o restorations(Tail(preEntries), postMap)

\* buildRollbackPlan({prePorts, postPorts, selectedContainers}).actions
buildRollbackPlan(args) ==
    LET allowed == allowedSet(args.selectedContainers)
        preMap == fillMap(args.prePorts, allowed, <<>>)
        postMap == fillMap(args.postPorts, allowed, <<>>)
    IN  removals(postMap, preMap) \o restorations(preMap, postMap)

\* ---- bounded inputs ----

PortRow(c, h, cp, proto) ==
    [container |-> c, host |-> h, containerPort |-> cp, protocol |-> proto]

\* the rows of the port lists of a snapshot (state.ports); a container port
\* may be published on two host ports
SnapshotRows ==
    { PortRow("a", 8080, 80, "tcp"), PortRow("a", 9090, 80, "tcp"),
      PortRow("a", 8080, 80, "udp"), PortRow("a", 8443, 443, "tcp"),
      PortRow("b", 5000, 80, "tcp"), PortRow("b", 5001, 80, "tcp") }

\* the values of selectedContainers: null, or an array of names
Selections == {[kind |-> "null"]} \cup {[kind |-> "array", items |-> S] : S \in SUBSET Names}

InitRollback ==
    /\ \E P \in SeqsUpTo(SnapshotRows, MaxPorts), Q \in SeqsUpTo(SnapshotRows, MaxPorts),
          S \in Selections :
            rargs = [prePorts |-> P, postPorts |-> Q, selectedContainers |-> S]
    /\ ractions = <<>>
    /\ rbuilt = FALSE
    /\ PlanIdle
    /\ ClsIdle
    /\ ExecIdle
    /\ UpdIdle
    /\ SrvIdle
    /\ RaceIdle
    /\ RjIdle

BuildRollbackPlan ==
    /\ ~rbuilt
    /\ ractions' = buildRollbackPlan(rargs)
    /\ rbuilt' = TRUE
    /\ UNCHANGED <<rargs, planVars, clsVars, execVars, updVars, srvVars, raceVars, rjVars>>

\* the opts object handleRollbackApply hands to runExecutor (part_000
\* 223-230); the handler called for an action is looked up by its type
rollbackExecutorOptions(dryRun, rollbackActions) ==
    [apply |-> TRUE, yes |-> TRUE,
     allowDockerMutation |-> IF dryRun THEN FALSE ELSE TRUE,
     dryRun |-> IF dryRun THEN "true" ELSE "false",
     planObject |-> [k \in 1..Len(rollbackActions) |->
                       [type |-> rollbackActions[k].type,
                        container |-> rollbackActions[k].container, portsOk |-> TRUE]],
     planGiven |-> TRUE, planDryRun |-> TRUE, onProgress |-> "listening"]

\* handleRollbackApply, lines 223-230: the rollback plan is run by runExecutor
ReplayRollback ==
    /\ rbuilt
    /\ ~xrun.called
    /\ \E dryRun \in BOOLEAN, downOk \in BOOLEAN :
         LET o == rollbackExecutorOptions(dryRun, ractions)
         IN  xrun' = [called |-> TRUE, opts |-> o, run |-> SilentRun(o, TRUE, downOk, <<>>)]
    /\ UNCHANGED <<req, jobs, spc, response, snapshots>>
    /\ UNCHANGED <<rbVars, planVars, clsVars, execVars, updVars, raceVars, rjVars>>

NextRollback == BuildRollbackPlan \/ ReplayRollback

SpecRollback == InitRollback /\ [][NextRollback]_vars

\* ===========================================================================
\* RESTORE PLAN BUILDER (src/src/snapshots/snapshot-manager.js, createRestorePlan)
\* ===========================================================================

\* shouldInclude(containerName): allowed is null for a selection that is null
\* or undefined, and a Set of the names otherwise
shouldInclude(selectedContainers, containerName) ==
    selectedContainers.kind = "null" \/ containerName \in selectedContainers.items

\* the loops filling preMap and postMap of createRestorePlan
RECURSIVE restoreMap(_, _, _)
restoreMap(ports, selectedContainers, m) ==
    IF ports = <<>> THEN m
    ELSE restoreMap(Tail(ports), selectedContainers,
                    IF shouldInclude(selectedContainers, Head(ports).container)
                    THEN mapSet(m, key(Head(ports)), Head(ports))
                    ELSE m)

\* null pushed on a from list
NullBinding == [host |-> 0, container |-> 0, protocol |-> "null"]

\* the loop over preMap that groups the bindings by container
RECURSIVE groupByContainer(_, _, _)
groupByContainer(preEntries, postMap, byContainer) ==
    IF preEntries = <<>> THEN byContainer
    ELSE LET k == Head(preEntries)[1]
             pre == Head(preEntries)[2]
             started == IF mapHas(byContainer, pre.container) THEN byContainer
                        ELSE mapSet(byContainer, pre.container, [from |-> <<>>, to |-> <<>>])
             container == mapGet(started, pre.container)
             grown ==
                 IF mapHas(postMap, k)
                 THEN [from |-> Append(container.from,
                                       B(mapGet(postMap, k).host, pre.containerPort, pre.protocol)),
                       to |-> Append(container.to, B(pre.host, pre.containerPort, pre.protocol))]
                 ELSE [from |-> Append(container.from, NullBinding),
                       to |-> Append(container.to, B(pre.host, pre.containerPort, pre.protocol))]
         IN  groupByContainer(Tail(preEntries), postMap,
                              mapSet(started, pre.container, grown))

\* the loop that builds one action per container
RECURSIVE restoreActions(_)
restoreActions(entries) ==
    IF entries = <<>> THEN <<>>
    ELSE LET containerName == Head(entries)[1]
             ports == Head(entries)[2]
         IN  (IF Len(ports.to) = 0 THEN <<>>
              ELSE << [type |-> "update-container-ports", container |-> containerName,
                       from |-> SelectSeq(ports.from, LAMBDA b : b # NullBinding),
                       to |-> ports.to] >>)
             \o restoreActions(Tail(entries))

\* createRestorePlan(snapshot, selectedContainers).actions
createRestorePlan(args) ==
    LET preMap == restoreMap(args.prePorts, args.selectedContainers, <<>>)
        postMap == restoreMap(args.postPorts, args.selectedContainers, <<>>)
    IN  restoreActions(groupByContainer(preMap, postMap, <<>>))

\* a snapshot with its pre and post port lists, and a selection
InitRestore ==
    /\ \E P \in SeqsUpTo(SnapshotRows, MaxPorts), Q \in SeqsUpTo(SnapshotRows, MaxPorts),
          S \in Selections :
            rargs = [prePorts |-> P, postPorts |-> Q, selectedContainers |-> S]
    /\ ractions = <<>>
    /\ rbuilt = FALSE
    /\ PlanIdle
    /\ ClsIdle
    /\ ExecIdle
    /\ UpdIdle
    /\ SrvIdle
    /\ RaceIdle
    /\ RjIdle

\* POST /api/restore, line 997
CreateRestorePlan ==
    /\ ~rbuilt
    /\ ractions' = createRestorePlan(rargs)
    /\ rbuilt' = TRUE
    /\ UNCHANGED <<rargs, planVars, clsVars, execVars, updVars, srvVars, raceVars, rjVars>>

NextRestore == CreateRestorePlan

SpecRestore == InitRestore /\ [][NextRestore]_vars

\* ===========================================================================
\* CONCURRENT JOBS CALLING THE UPDATE-CONTAINER-PORTS HANDLER
\* (src/src/executor/actions/update-container-ports.js 222-262; each job of
\* POST /api/apply awaits its own runExecutor, tabs-ui.js 838-881)
\* ===========================================================================

\* two jobs in flight whose plans target the same container; the container
\* is attached to its primary network only, so no network is reconnected
RaceJobs == {1, 2}

\* where a handler stands after a step that did not throw
AfterStep(step) ==
    CASE step = "exists"  -> "running"
      [] step = "running" -> "inspect"
      [] step = "inspect" -> "stop"
      [] step = "stop"    -> "remove"
      [] step = "remove"  -> "create"
      [] step = "create"  -> "start"
      [] step = "start"   -> "done"

\* one awaited step of job j: ok says whether it went through, effect is the
\* runtime after it
JobStep(j, step, ok, effect) ==
    /\ jpc[j] = step
    /\ jlog' = Append(jlog, [job |-> j, op |-> step, ok |-> ok])
    /\ jpc' = [jpc EXCEPT ![j] = IF ok THEN AfterStep(step) ELSE "failed"]
    /\ live' = IF ok THEN effect ELSE live
    /\ UNCHANGED jact
    /\ UNCHANGED <<planVars, execVars, updVars, clsVars, srvVars, rbVars, rjVars>>

\* a docker command that can fail on its own and fails when the runtime
\* refuses it
JobDockerCall(j, step, canSucceed, effect) ==
    \E ok \in (IF canSucceed THEN BOOLEAN ELSE {FALSE}) : JobStep(j, step, ok, effect)

\* lines 223-224
J_Exists(j) == JobStep(j, "exists", live.exists, live)

\* lines 226-229
J_Running(j) == JobStep(j, "running", live.exists /\ runningCheckPasses(live.running), live)

\* lines 232-241: inspect and the check of action.from against the
\* published ports
J_Inspect(j) ==
    JobStep(j, "inspect",
            live.exists /\ samePortList(SetToList(live.ports), jact[j].from), live)

\* line 250
J_Stop(j) == JobDockerCall(j, "stop", live.exists, [live EXCEPT !.running = FALSE])

\* line 251
J_Remove(j) ==
    JobDockerCall(j, "remove", live.exists /\ ~live.running,
                  [exists |-> FALSE, running |-> FALSE, ports |-> {}])

\* line 252
J_Create(j) ==
    JobDockerCall(j, "create", ~live.exists,
                  [exists |-> TRUE, running |-> FALSE,
                   ports |-> {B(jact[j].to[k].host, jact[j].to[k].container,
                                normProto(jact[j].to[k].protocol)) :
                                  k \in 1..Len(jact[j].to)}])

\* line 260
J_Start(j) == JobDockerCall(j, "start", live.exists, [live EXCEPT !.running = TRUE])

InitRace ==
    /\ \E run \in BOOLEAN, pub \in {{B(8080, 80, "tcp")}, {B(5000, 80, "tcp")}},
          to1 \in {B(5000, 80, "tcp"), B(5001, 80, "tcp")},
          to2 \in {B(5000, 80, "tcp"), B(5001, 80, "tcp")} :
            /\ live = [exists |-> TRUE, running |-> run, ports |-> pub]
            /\ jact = <<[container |-> "a", from |-> <<B(8080, 80, "tcp")>>, to |-> <<to1>>],
                        [container |-> "a", from |-> <<B(8080, 80, "tcp")>>, to |-> <<to2>>]>>
    /\ jpc = <<"exists", "exists">>
    /\ jlog = <<>>
    /\ PlanIdle
    /\ ClsIdle
    /\ ExecIdle
    /\ UpdIdle
    /\ SrvIdle
    /\ RbIdle
    /\ RjIdle

NextRace ==
    \E j \in RaceJobs :
        \/ J_Exists(j)
        \/ J_Running(j)
        \/ J_Inspect(j)
        \/ J_Stop(j)
        \/ J_Remove(j)
        \/ J_Create(j)
        \/ J_Start(j)

SpecRace == InitRace /\ [][NextRace]_vars

\* ===========================================================================
\* ROLLBACK ROUTES, POST /api/rollback/apply (src/unnamed/part_000; the jobs
\* map and the job helpers are those of the server, tabs-ui.js 562-659)
\* ===========================================================================

\* Job ids are the positions in the jobs map (crypto.randomUUID gives each
\* job an id of its own); 0 stands for no id.

\* a job of the jobs map
Job(kind, sourceJobId, status, pre, post, prePorts, postPorts) ==
    [kind |-> kind, sourceJobId |-> sourceJobId, status |-> status, dryRun |-> FALSE,
     preState |-> pre, postState |-> post, prePorts |-> prePorts, postPorts |-> postPorts]

\* only a rollback job still running counts
findExistingRollback_RunningOnly(jobsMap, sourceJobId) ==
    \E k \in 1..Len(jobsMap) :
        /\ jobsMap[k].kind = "rollback"
        /\ jobsMap[k].sourceJobId = sourceJobId
        /\ jobsMap[k].status = "running"

\* findExistingRollback(sourceJobId) returns a job
findExistingRollback(jobsMap, sourceJobId) ==
    \E k \in 1..Len(jobsMap) :
        jobsMap[k].kind = "rollback" /\ jobsMap[k].sourceJobId = sourceJobId

\* the status handleRollbackApply answers with before it creates a job, 202
\* when every gate is passed (lines 136-176)
rollbackGate(jobsMap, r) ==
    IF r.jobId = 0 THEN 400
    ELSE IF r.jobId \notin 1..Len(jobsMap) THEN 404
    ELSE IF jobsMap[r.jobId].dryRun THEN 400
    ELSE IF ~jobsMap[r.jobId].preState \/ ~jobsMap[r.jobId].postState THEN 400
    ELSE IF findExistingRollback(jobsMap, r.jobId) THEN 409
    ELSE IF ~r.dryRun /\ ~r.allowDockerMutation THEN 400
    ELSE IF ~r.phraseMatches THEN 400
    ELSE 202

\* the jobs the server holds when the requests arrive: job 1 moved a from
\* 8080 to 9090, job 2 changed nothing and may lack its snapshots
SourceJobs(secondHasStates) ==
    << Job("execution", 0, "completed", TRUE, TRUE,
           <<PortRow("a", 8080, 80, "tcp")>>, <<PortRow("a", 9090, 80, "tcp")>>),
       Job("execution", 0, IF secondHasStates THEN "completed" ELSE "failed",
           TRUE, secondHasStates,
           <<PortRow("b", 5000, 80, "tcp")>>, <<PortRow("b", 5000, 80, "tcp")>>) >>

\* the bodies of the requests: jobId missing (0), of a source job, or unknown
RollbackRequests ==
    { [jobId |-> id, allowDockerMutation |-> g[1], phraseMatches |-> g[2], dryRun |-> g[3],
       selectedContainers |-> sel, pc |-> "received", response |-> 0, job |-> 0] :
         id \in {0, 1, 2, 9},
         g \in {<<TRUE, TRUE, FALSE>>, <<FALSE, TRUE, TRUE>>, <<FALSE, TRUE, FALSE>>,
                <<TRUE, FALSE, FALSE>>},
         sel \in {[kind |-> "null"], [kind |-> "array", items |-> {"a"}]} }

InitRollbackApply ==
    /\ \E secondHasStates \in BOOLEAN : rjobs = SourceJobs(secondHasStates)
    /\ \E n \in 1..MaxRequests : rreqs \in [1..n -> RollbackRequests]
    /\ PlanIdle
    /\ ClsIdle
    /\ ExecIdle
    /\ UpdIdle
    /\ SrvIdle
    /\ RbIdle
    /\ RaceIdle

\* failJob(job, err) on the job of request r
failRollbackJob(r) ==
    /\ rjobs' = [rjobs EXCEPT ![rreqs[r].job].status = "failed"]
    /\ rreqs' = [rreqs EXCEPT ![r].pc = "done"]

\* lines 120-190, run without a pause once the body has arrived: the gates,
\* createJob, kind and sourceJobId, the 202
RA_Receive(r) ==
    /\ rreqs[r].pc = "received"
    /\ LET status == rollbackGate(rjobs, rreqs[r]) IN
       IF status # 202
       THEN /\ rreqs' = [rreqs EXCEPT ![r].pc = "done", ![r].response = status]
            /\ UNCHANGED rjobs
       ELSE /\ rjobs' = Append(rjobs, Job("rollback", rreqs[r].jobId, "running",
                                            FALSE, FALSE, <<>>, <<>>))
            /\ rreqs' = [rreqs EXCEPT ![r].pc = "planning", ![r].response = 202,
                                       ![r].job = Len(rjobs) + 1]
    /\ UNCHANGED <<planVars, execVars, updVars, clsVars, srvVars, rbVars, raceVars>>

\* lines 199-200: the live state is loaded for the job's preState
RA_LoadPre(r) ==
    /\ rreqs[r].pc = "planning"
    /\ \E loaded \in BOOLEAN :
         IF loaded
         THEN /\ rjobs' = [rjobs EXCEPT ![rreqs[r].job].preState = TRUE]
              /\ rreqs' = [rreqs EXCEPT ![r].pc = "executing"]
         ELSE failRollbackJob(r)
    /\ UNCHANGED <<planVars, execVars, updVars, clsVars, srvVars, rbVars, raceVars>>

\* lines 208-230: the rollback plan of the source job is built and run
RA_Execute(r) ==
    /\ rreqs[r].pc = "executing"
    /\ \E downOk \in BOOLEAN :
         LET sourceJob == rjobs[rreqs[r].jobId]
             rollbackPlan == buildRollbackPlan([prePorts |-> sourceJob.prePorts,
                                                postPorts |-> sourceJob.postPorts,
                                                selectedContainers |-> rreqs[r].selectedContainers])
             run == SilentRun(rollbackExecutorOptions(rreqs[r].dryRun, rollbackPlan),
                              TRUE, downOk, <<>>)
         IN  IF run.outcome.status = "error"
             THEN failRollbackJob(r)
             ELSE /\ rreqs' = [rreqs EXCEPT ![r].pc = "finishing"]
                  /\ UNCHANGED rjobs
    /\ UNCHANGED <<planVars, execVars, updVars, clsVars, srvVars, rbVars, raceVars>>

\* lines 232-241: the live state is loaded for postState, completeJob
RA_Finish(r) ==
    /\ rreqs[r].pc = "finishing"
    /\ \E loaded \in BOOLEAN :
         IF loaded
         THEN /\ rjobs' = [rjobs EXCEPT ![rreqs[r].job].postState = TRUE,
                                         ![rreqs[r].job].status = "completed"]
              /\ rreqs' = [rreqs EXCEPT ![r].pc = "done"]
         ELSE failRollbackJob(r)
    /\ UNCHANGED <<planVars, execVars, updVars, clsVars, srvVars, rbVars, raceVars>>

NextRollbackApply ==
    \E r \in 1..Len(rreqs) :
        \/ RA_Receive(r)
        \/ RA_LoadPre(r)
        \/ RA_Execute(r)
        \/ RA_Finish(r)

SpecRollbackApply == InitRollbackApply /\ [][NextRollbackApply]_vars

\* ===========================================================================
\* The parts together
\* ===========================================================================

Init == InitPlan \/ InitClassify \/ InitExec \/ InitUpd \/ InitApply \/ InitRollback \/ InitRestore \/ InitRace \/ InitRollbackApply

Next == NextPlan \/ NextClassify \/ NextExec \/ NextUpd \/ NextApply \/ NextRollback \/ NextRestore \/ NextRace \/ NextRollbackApply

Spec == Init /\ [][Next]_vars

\* ---------------------------------------------------------------------------
\* Properties of buildPlan
\* ---------------------------------------------------------------------------

\* the classification entry of the container an action targets
ClassifiedAs(name) ==
    LET k == CHOOSE j \in 1..Len(input.classification) : input.classification[j].name = name
    IN  input.classification[k]

\* override category if an override category is present, else the classified one
StatedCategory(name) ==
    IF input.overrides[name].kind = "object"
    THEN input.overrides[name].category
    ELSE ClassifiedAs(name).category

ProtectedCategories == {"system", "games", "unknown"}

StatedConfidence(name) ==
    IF input.overrides[name].kind = "object" THEN 100 ELSE ClassifiedAs(name).confidence

\* the container is decided by the apps rule: its effective category is apps
\* and the low-confidence rule, which comes first, does not apply
DecidedAsApps(name) ==
    /\ StatedCategory(name) = "apps"
    /\ StatedConfidence(name) = NoConfidence \/ StatedConfidence(name) >= 90

LayoutOf(in) == generateIncrementalLayout(appsWithEnforcement(in), in.state, StartPort)

\* C17: an opted-in, running apps container whose incremental layout equals
\* its current port bindings, a container without published ports included,
\* gets a no-op action with status compliant, hence neither
\* update-container-ports nor the status enforceable-opt-in.
C17_MatchingLayoutIsCompliant ==
    built =>
        \A k \in 1..Len(plan) :
            LET name == plan[k].container IN
            ( /\ DecidedAsApps(name)
              /\ input.policyEnforcement[name]
              /\ input.state.containers[name] = "running"
              /\ ~portsChanged(buildPortMap(input.state, name), LayoutOf(input)[name]) )
                => /\ plan[k].type = "no-op"
                   /\ plan[k].status = "compliant"

\* the container is in the classification, opted in, and its effective
\* category (override, else classification) is apps
OptedInApps(n) ==
    /\ input.policyEnforcement[n]
    /\ \E k \in 1..Len(input.classification) :
          /\ input.classification[k].name = n
          /\ (IF input.overrides[n].kind # "none"
              THEN input.overrides[n].category
              ELSE input.classification[k].category) = "apps"

\* the TCP and the UDP bindings of a port list, in their order
TcpOf(ports) == SelectSeq(ports, LAMBDA b : b.protocol = "tcp")

UdpOf(ports) == SelectSeq(ports, LAMBDA b : b.protocol = "udp")

\* the counter values used up by the opted-in apps containers that come
\* before n in name order
RECURSIVE UsedBefore(_, _)
UsedBefore(order, n) ==
    IF order = <<>> \/ Head(order) = n THEN 0
    ELSE (IF OptedInApps(Head(order))
          THEN Len(TcpOf(buildPortMap(input.state, Head(order)))) ELSE 0)
         + UsedBefore(Tail(order), n)

\* C18: over the opted-in containers of effective category apps, in name
\* order, the layout numbers the TCP bindings 5000, 5001, ... without gap or
\* duplicate, keeps every container-side port and every UDP binding, and a
\* container outside that set gets no layout and uses up no number; an
\* update-container-ports action carries the layout of its container.
C18_SequentialLayout ==
    built =>
        LET layout == LayoutOf(input)
            hosts == UNION {{TcpOf(layout[n])[k].host : k \in 1..Len(TcpOf(layout[n]))} :
                               n \in Names}
            total == UsedBefore(NameOrder, "")
        IN
        /\ hosts = 5000..(5000 + total - 1)
        /\ \A n \in Names :
              LET current == buildPortMap(input.state, n) IN
              IF OptedInApps(n)
              THEN /\ Len(TcpOf(layout[n])) = Len(TcpOf(current))
                   /\ \A k \in 1..Len(TcpOf(current)) :
                         /\ TcpOf(layout[n])[k].host = 5000 + UsedBefore(NameOrder, n) + k - 1
                         /\ TcpOf(layout[n])[k].container = TcpOf(current)[k].container
                   /\ UdpOf(layout[n]) = UdpOf(current)
                   /\ Len(layout[n]) = Len(TcpOf(current)) + Len(UdpOf(current))
              ELSE layout[n] = <<>>
        /\ \A k \in 1..Len(plan) :
              plan[k].type = "update-container-ports" => plan[k].to = layout[plan[k].container]

\* the TCP host ports of a list of bindings
TcpHosts(ports) == {TcpOf(ports)[k].host : k \in 1..Len(TcpOf(ports))}

\* the plan's actions from position k on are carried out in order while the
\* containers publish the TCP host ports held: none of them creates its
\* container with a TCP host port another container publishes at that moment
RECURSIVE NoCollisionFrom(_, _)
NoCollisionFrom(k, held) ==
    IF k > Len(plan) THEN TRUE
    ELSE IF plan[k].type = "update-container-ports" /\ plan[k].executable
    THEN /\ \A n \in Names \ {plan[k].container} : TcpHosts(plan[k].to) \cap held[n] = {}
         /\ NoCollisionFrom(k + 1, [held EXCEPT ![plan[k].container] = TcpHosts(plan[k].to)])
    ELSE NoCollisionFrom(k + 1, held)

\* C27: when the update-container-ports actions of a plan are carried out in
\* plan order against the state the plan was built from, no action creates a
\* container with a TCP host port that another container still publishes,
\* be it a container outside the opted-in set or an opted-in container whose
\* own action comes later.
C27_NoPortCollisionInPlanOrder ==
    built =>
        NoCollisionFrom(1, [n \in Names |-> TcpHosts(buildPortMap(input.state, n))])

\* the positions of the plan's actions that target a container
ActionsOn(n) == {k \in 1..Len(plan) : plan[k].container = n}

\* C19: a plan holds exactly one action per classified container, in the
\* order of the classification, hence at most one update-container-ports
\* action per container name.
C19_OneActionPerContainer ==
    built =>
        /\ Len(plan) = Len(input.classification)
        /\ \A k \in 1..Len(input.classification) :
              /\ plan[k].container = input.classification[k].name
              /\ Cardinality(ActionsOn(input.classification[k].name)) = 1
        /\ \A n \in Names :
              Cardinality({k \in ActionsOn(n) : plan[k].type = "update-container-ports"}) <= 1

\* C19 witness: a plan with an update-container-ports action for each of two
\* containers.
C19_Witness ==
    /\ built
    /\ Len(plan) = 2
    /\ plan[1].type = "update-container-ports"
    /\ plan[2].type = "update-container-ports"
    /\ plan[1].container # plan[2].container

\* ---------------------------------------------------------------------------
\* Properties of the pipeline classify -> buildPlan
\* ---------------------------------------------------------------------------

\* the category a user's override names, whether given as a string or as an
\* object with a category field; "" when the container has no override
OverrideOf(name) ==
    IF world.overrides[name].kind = "none" THEN "" ELSE world.overrides[name].category

\* the policy that decides on a container of a category when the
\* low-confidence rule does not intervene
DecidingPolicy(category) ==
    CASE category = "unknown" -> "unknown-classification"
      [] category = "games" -> "games-port-review"
      [] category = "system" -> "system-protection"
      [] category = "apps" -> "apps-port-layout"

\* C13: a container with an override is classified as the override category
\* with confidence 1.0 and reasons ["user override"] whatever its name, image
\* and ports are, and the plan built from that classification with the same
\* overrides decides on it by the override category with confidence 1.0,
\* never by the low-confidence rule.
C13_OverrideIsAuthoritative ==
    \A k \in 1..Len(world.containers) :
        LET name == world.containers[k].name IN
        OverrideOf(name) # "" =>
            /\ cpc \in {"plan", "done"} =>
                  classification[k] = [name |-> name, category |-> OverrideOf(name),
                                       confidence |-> 100, reasons |-> <<"user override">>]
            /\ cpc = "done" =>
                  /\ plan[k].container = name
                  /\ plan[k].confidenceUsed = 100
                  /\ plan[k].policyId = DecidingPolicy(OverrideOf(name))

\* C13 witness: a container whose name and image say infrastructure carries
\* the string override "games" and got the games review action.
C13_Witness ==
    /\ cpc = "done"
    /\ world.overrides["a"] = [kind |-> "string", category |-> "games"]
    /\ world.containers[1].text = <<"T", "r", "a", "e", "f", "i", "k">>
    /\ world.containers[1].image = <<"n", "g", "i", "n", "x">>
    /\ plan[1].type = "review-game-ports"
    /\ plan[1].confidenceUsed = 100

\* C29: in the classify -> buildPlan pipeline a container without an override
\* never gets an executable action: classified apps by the heuristics, its
\* confidence is at most 0.4, below the 0.9 threshold of the plan builder, so
\* every executable action targets a container with an apps override.
C29_ExecutableNeedsAppsOverride ==
    /\ cpc \in {"plan", "done"} =>
          \A k \in 1..Len(classification) :
              OverrideOf(classification[k].name) = "" /\ classification[k].category = "apps"
                  => classification[k].confidence <= 40
    /\ cpc = "done" =>
          \A k \in 1..Len(plan) :
              plan[k].executable =>
                  /\ plan[k].type = "update-container-ports"
                  /\ OverrideOf(plan[k].container) = "apps"

\* C29 witness: a, named api-ui and publishing TCP only, has no override and
\* is classified apps with confidence 0.4; opted in and running, it is sent
\* to manual review, while b with its apps override gets the executable
\* action.
C29_Witness ==
    /\ cpc = "done"
    /\ OverrideOf("a") = ""
    /\ world.policyEnforcement["a"]
    /\ world.containers[1].running
    /\ classification[1].category = "apps"
    /\ classification[1].confidence = 40
    /\ plan[1].type = "manual-review"
    /\ ~plan[1].executable
    /\ Len(plan) = 2
    /\ plan[2].executable
    /\ OverrideOf("b") = "apps"

\* the score of a category in a list of score entries
ScoreOf(entries, category) ==
    entries[CHOOSE i \in 1..Len(entries) : entries[i][1] = category][2]

ScoredCategories == {"system", "apps", "games"}

\* the categories whose score is positive and at least 1 above every other
ClearWinners(entries) ==
    {c \in ScoredCategories :
        /\ ScoreOf(entries, c) > 0
        /\ \A d \in ScoredCategories \ {c} :
              ScoreOf(entries, c) >= ScoreOf(entries, d) + 1}

\* C14: a container without override is classified as its top-scoring
\* category with confidence min(0.95, topScore/5) exactly when that score is
\* positive and at least 1 above every other score; otherwise as unknown
\* with confidence 0.2; the confidence lies in [0, 1].
C14_ClearWinnerOrUnknown ==
    cpc = "plan" =>
        \A k \in 1..Len(world.containers) :
            OverrideOf(world.containers[k].name) = "" =>
                LET r == classification[k]
                    e == scoreEntries(signals(world.containers[k]))
                    winners == ClearWinners(e)
                IN  /\ r.confidence \in 0..100
                    /\ IF winners # {}
                       THEN /\ r.category \in winners
                            /\ r.confidence = IF ScoreOf(e, r.category) >= 5 THEN 95
                                               ELSE ScoreOf(e, r.category) * 20
                       ELSE /\ r.category = "unknown"
                            /\ r.confidence = 20

\* C14 witness: a container scoring 2 for system and 2 for games, a tie for
\* first place, was classified as unknown.
C14_Witness ==
    /\ cpc = "plan"
    /\ OverrideOf("a") = ""
    /\ ScoreOf(scoreEntries(signals(world.containers[1])), "system") = 2
    /\ ScoreOf(scoreEntries(signals(world.containers[1])), "games") = 2
    /\ classification[1].category = "unknown"
    /\ classification[1].confidence = 20

\* the container of the scenario: named mc-server, a minecraft image, a UDP
\* port, no override
IsMcServer(c) ==
    /\ c.text = <<"m", "c", "-", "s", "e", "r", "v", "e", "r">>
    /\ includes(norm(c.image), <<"m", "i", "n", "e", "c", "r", "a", "f", "t">>)
    /\ \E k \in 1..Len(c.ports) : c.ports[k].protocol = <<"u", "d", "p">>
    /\ OverrideOf(c.name) = ""

\* C15 as stated: mc-server is classified games with confidence 0.8 and gets
\* a review-game-ports action that is not executable, opted in or not.
C15_McServerReviewGamePorts ==
    (cpc = "done" /\ IsMcServer(world.containers[1])) =>
        /\ classification[1].category = "games"
        /\ classification[1].confidence = 80
        /\ plan[1].type = "review-game-ports"
        /\ ~plan[1].executable

\* C15 amended: mc-server is classified games, with confidence 0.8 when none
\* of its host ports is 20000 or above and 0.95 otherwise; with 0.8 the
\* low-confidence rule gives it manual-review, with 0.95 it gets
\* review-game-ports; the action is never executable, opted in or not.
C15_McServerNeverExecutable ==
    (cpc = "done" /\ IsMcServer(world.containers[1])) =>
        LET high == \E k \in 1..Len(world.containers[1].ports) :
                        world.containers[1].ports[k].host >= 20000
        IN  /\ classification[1].category = "games"
            /\ classification[1].confidence = IF high THEN 95 ELSE 80
            /\ plan[1].type = IF high THEN "review-game-ports" ELSE "manual-review"
            /\ plan[1].policyId = IF high THEN "games-port-review"
                                   ELSE "low-confidence-classification"
            /\ ~plan[1].executable

\* C15 witness: mc-server with UDP port 19132, opted in and running, got
\* manual-review.
C15_Witness ==
    /\ cpc = "done"
    /\ IsMcServer(world.containers[1])
    /\ world.containers[1].ports = << CP(19132, 19132, <<"u", "d", "p">>) >>
    /\ world.policyEnforcement["a"]
    /\ world.containers[1].running
    /\ plan[1].type = "manual-review"

\* ---------------------------------------------------------------------------
\* Properties of runExecutor
\* ---------------------------------------------------------------------------

Last(s) == s[Len(s)]

HasMutationAction == \E k \in 1..Len(xplan.actions) : xplan.actions[k].type = "update-container-ports"

\* the types the executor knows
KnownTypes == {"review-game-ports", "manual-review", "reserve-port", "release-port",
               "update-container-ports"}

HasUnknownType == \E k \in 1..Len(xplan.actions) : xplan.actions[k].type \notin KnownTypes

NoHandlerRan == trace = <<>> /\ calls = <<>> /\ results = <<>>

\* C4 as stated: a loaded plan with an update-container-ports action and no
\* allow-mutation flag always ends in an error, before any handler ran.
C4_AbortsWithError ==
    (pc = "done" /\ xplan.loaded /\ HasMutationAction /\ ~opts.allowDockerMutation)
        => (outcome.status = "error" /\ NoHandlerRan)

\* C4 amended: with a loaded plan that has an update-container-ports action and
\* no allow-mutation flag, no handler is ever invoked and no call is issued; the
\* run ends with an error, or with status "aborted" when the yes flag is absent
\* and the user declined the general confirmation.
C4_NoHandlerWithoutFlag ==
    (xplan.loaded /\ HasMutationAction /\ ~opts.allowDockerMutation)
        => /\ NoHandlerRan
           /\ pc = "done" =>
                \/ outcome.status = "error"
                \/ /\ outcome = Outcome("aborted", "apply-not-confirmed")
                   /\ ~opts.yes
                   /\ prompts = <<"apply">>

\* C4 witness: the allow-mutation gate stopped a plan whose first action is a
\* well-formed non-mutation action with a handler.
C4_Witness ==
    /\ pc = "done"
    /\ outcome = Outcome("error", "mutation-not-allowed")
    /\ Len(xplan.actions) >= 2
    /\ xplan.actions[1].type = "reserve-port"
    /\ xplan.actions[1].portsOk
    /\ xplan.actions[2].type = "update-container-ports"
    /\ opts.dryRun # "true"

\* C5: without the apply flag runExecutor fails at once: the plan is not
\* loaded, no confirmation is requested, no progress event is emitted, no audit
\* line is written and no handler is invoked.
C5_RefusesWithoutApply ==
    (~opts.apply /\ pc # "start")
        => /\ pc = "done"
           /\ outcome = Outcome("error", "no-apply")
           /\ ~xplan.loaded
           /\ prompts = <<>>
           /\ events = <<>>
           /\ auditLog = <<>>
           /\ NoHandlerRan

\* C5 witness: a refused run that had a plan with a runnable action, an
\* observer and no yes flag.
C5_Witness ==
    /\ pc = "done"
    /\ ~opts.apply
    /\ opts.planGiven
    /\ Len(opts.planObject) > 0
    /\ opts.planObject[1].type = "reserve-port"
    /\ opts.onProgress # "none"
    /\ ~opts.yes

\* C6: a loaded plan with an action of unknown type, at any position, is
\* rejected by preflight: no confirmation was requested, the allow-mutation
\* gate was not reached and no handler was invoked.
C6_UnknownTypeStopsAtPreflight ==
    (xplan.loaded /\ HasUnknownType)
        => /\ pc \in {"preflight", "done"}
           /\ prompts = <<>>
           /\ NoHandlerRan
           /\ pc = "done" => outcome = Outcome("error", "preflight")

\* C6 witness: the unknown type sits last, behind a runnable action and a
\* mutation action, with neither the yes nor the allow-mutation flag.
C6_Witness ==
    /\ pc = "done"
    /\ outcome = Outcome("error", "preflight")
    /\ Len(xplan.actions) = 3
    /\ xplan.actions[1].type = "reserve-port"
    /\ xplan.actions[2].type = "update-container-ports"
    /\ xplan.actions[3].type \notin KnownTypes
    /\ ~opts.yes
    /\ ~opts.allowDockerMutation

ActionStarts == SelectSeq(events, LAMBDA e : e.type = "action:start")

\* C7: handlers run one at a time in plan order: a handler is started for
\* action 0 first and for action i+1 only right after the handler of action i
\* returned, every return or throw belongs to the handler started last, and
\* the action:start events carry the indexes 0, 1, 2, ...
C7_Sequential ==
    /\ \A k \in 1..Len(trace) :
          IF trace[k][1] = "start"
          THEN IF k = 1 THEN trace[k][2] = 0
                        ELSE trace[k - 1] = <<"return", trace[k][2] - 1>>
          ELSE k > 1 /\ trace[k - 1] = <<"start", trace[k][2]>>
    /\ (pc = "handler") <=> (trace # <<>> /\ Last(trace)[1] = "start")
    /\ \A j \in 1..Len(ActionStarts) : ActionStarts[j].index = j - 1

\* C7 witness: a run with an observer in which three handlers were started.
C7_Witness ==
    /\ Len(ActionStarts) >= 3
    /\ Len(trace) >= 5

\* C8: once the handler of action i has thrown, action:error for i is the
\* last event, the run has ended with that error, no action after i was
\* started, and the calls of the actions before i are all there, in order and
\* successful, with no other call after them than the failed one.
C8_FailureAborts ==
    \A k \in 1..Len(trace) :
        trace[k][1] = "throw" =>
            LET i == trace[k][2] IN
            /\ k = Len(trace)
            /\ pc = "done"
            /\ outcome = Outcome("error", "handler")
            /\ opts.onProgress # "none" => Last(events) = Evt("action:error", i)
            /\ \A m \in 1..Len(trace) : trace[m][2] <= i
            /\ Len(results) = i
            /\ \A c \in 1..Len(calls) :
                  /\ calls[c].op = "allocate"
                  /\ calls[c].index = c - 1
                  /\ calls[c].ok <=> (c - 1 < i)
            /\ opts.dryRun # "true" => Len(calls) \in {i, i + 1}

\* C8 witness: the handler of the second action failed after the first one
\* had made its call, and a third action was never started.
C8_Witness ==
    /\ outcome = Outcome("error", "handler")
    /\ idx = 1
    /\ Len(xplan.actions) = 3
    /\ Len(calls) = 2
    /\ calls[1].ok
    /\ opts.onProgress # "none"

\* C11: a run whose observer throws on every event ends exactly as the run
\* without observer that got the same answers: same handler invocations in
\* the same order, same result or error, same audit lines, same calls.
C11_ObserverFailuresIgnored ==
    (pc = "done" /\ opts.onProgress = "throwing")
        => RunRecord(outcome, trace, auditLog, calls, results, prompts)
             = SilentRun(opts,
                         outcome.reason # "apply-not-confirmed",
                         outcome.reason # "docker-downtime-not-confirmed",
                         [k \in 1..Len(calls) |-> calls[k].ok])

\* C11 witness: a run with a throwing observer went through two handlers,
\* the observer was called for every event, and the run succeeded.
C11_Witness ==
    /\ pc = "done"
    /\ opts.onProgress = "throwing"
    /\ outcome = Outcome("success", "")
    /\ Len(calls) = 2
    /\ Len(events) = 8

\* ---------------------------------------------------------------------------
\* Properties of updateContainerPorts
\* ---------------------------------------------------------------------------

\* a protocol name in lower case
LowerCase(p) == IF p = "TCP" THEN "tcp" ELSE IF p = "UDP" THEN "udp" ELSE p

\* the (host port, container port, protocol) triples of a binding list
BindingSet(list) ==
    {<<list[k].host, list[k].container, LowerCase(list[k].protocol)>> : k \in 1..Len(list)}

\* the triples of a set of published bindings
PublishedSet(pub) == {<<b.host, b.container, b.protocol>> : b \in pub}

IsError(st) == st \in {"error:bad-action", "error:bad-port", "error:not-found",
                       "error:not-running", "error:preflight-mismatch", "error:docker"}

\* C2: in a non-dry-run call, when the bindings the live container publishes at
\* inspect time are not the same set as the action's from, the handler raises
\* the preflight error and has issued no stop, remove, create or start call.
C2_DriftRejected ==
    (~udry /\ snap.inspected /\ PublishedSet(snap.ports) # BindingSet(uaction.from))
        => /\ ustatus = "error:preflight-mismatch"
           /\ upc = "done"
           /\ dcalls = <<>>

\* C2 witness: a running container whose published set and from have the same
\* size and differ in one entry.
C2_Witness ==
    /\ ~udry
    /\ snap.inspected
    /\ snap.checkedRunning = "yes"
    /\ Cardinality(PublishedSet(snap.ports)) = Cardinality(BindingSet(uaction.from))
    /\ Cardinality(PublishedSet(snap.ports) \ BindingSet(uaction.from)) = 1
    /\ Cardinality(BindingSet(uaction.from) \ PublishedSet(snap.ports)) = 1
    /\ ustatus = "error:preflight-mismatch"

\* C3: in a non-dry-run call, when the container was missing at the existence
\* check or missing or stopped at the running check, the handler raises an
\* error and has issued no stop, remove, create, network-connect or start call.
C3_StoppedNeverMutated ==
    (~udry /\ (snap.checkedExists = "no" \/ snap.checkedRunning = "no"))
        => /\ IsError(ustatus)
           /\ upc = "done"
           /\ dcalls = <<>>

\* C3 witness: a stopped container whose configured bindings equal from and
\* whose action is otherwise valid was refused for not running.
C3_Witness ==
    /\ ~udry
    /\ ustatus = "error:not-running"
    /\ rt.exists /\ ~rt.running
    /\ PublishedSet(rt.ports) = BindingSet(uaction.from)
    /\ \A k \in 1..Len(uaction.to) : portFlagValid(uaction.to[k])

\* the attached networks other than the primary network mode
SecondaryNetworks == SelectSeq(NetOrder, LAMBDA n : n \in snap.networks /\ n # snap.netMode)

ExpectedCalls ==
    << <<"stop", uaction.container>>, <<"remove", uaction.container>>,
       <<"create", [k \in 1..Len(uaction.to) |->
                      <<uaction.to[k].host, uaction.to[k].container,
                        LowerCase(uaction.to[k].protocol)>>]>> >>
      \o [k \in 1..Len(SecondaryNetworks) |-> <<"connect", SecondaryNetworks[k]>>]
      \o << <<"start", uaction.container>> >>

IssuedCalls == [k \in 1..Len(dcalls) |-> <<dcalls[k].op, dcalls[k].arg>>]

RealRunWouldPass ==
    /\ uaction.container # ""
    /\ uaction.from # <<>> /\ uaction.to # <<>>
    /\ \A k \in 1..Len(uaction.to) : portFlagValid(uaction.to[k])
    /\ rt.exists /\ rt.running
    /\ PublishedSet(rt.ports) = BindingSet(uaction.from)

\* C10: a dry-run call issues no mutating call and returns "validated" exactly
\* when a real run against the same runtime would have passed its preflight.
C10_DryRunMirrorsPreflight ==
    (udry /\ upc = "done")
        => /\ dcalls = <<>>
           /\ (ustatus = "validated") <=> RealRunWouldPass

\* ---------------------------------------------------------------------------
\* Properties of the web UI server
\* ---------------------------------------------------------------------------

\* the request asks for a real run
NonDryRun == req.validJson /\ ~truthy(req.dryRun)

\* the request carries the Docker-mutation consent and the exact phrase
FullyConfirmed == truthy(req.allowDockerMutation) /\ req.confirmPhrase = "exact"

\* C12: a non-dry-run apply request lacking the Docker-mutation consent or
\* the exact confirmation phrase is rejected before a job is created and
\* before runExecutor is called, and only a request carrying both leads to a
\* handler being invoked.
C12_GatedBeforeJob ==
    (NonDryRun /\ ~FullyConfirmed) =>
        /\ jobs = <<>>
        /\ ~xrun.called
        /\ response \in {0, 400}

\* ---------------------------------------------------------------------------
\* Properties of buildRollbackPlan
\* ---------------------------------------------------------------------------

\* the keys a port list binds for the selected containers
KeysIn(ports) ==
    {key(ports[i]) : i \in {j \in 1..Len(ports) :
                              ports[j].container \in rargs.selectedContainers.items}}

\* the host port a list binds a key to: that of its last row for the key
HostIn(ports, k) ==
    ports[CHOOSE i \in 1..Len(ports) :
            /\ key(ports[i]) = k
            /\ \A j \in (i + 1)..Len(ports) : key(ports[j]) # k].host

\* the action that takes a key back from the post list to the pre list
Reverting(k) ==
    RollbackAction(k[1], k[2],
                   IF k \in KeysIn(rargs.postPorts) THEN HostIn(rargs.postPorts, k) ELSE NoHost,
                   IF k \in KeysIn(rargs.prePorts) THEN HostIn(rargs.prePorts, k) ELSE NoHost)

\* the keys of selected containers bound in one list only, or to different
\* host ports in the two lists
ChangedKeys ==
    {k \in KeysIn(rargs.prePorts) \cup KeysIn(rargs.postPorts) :
        \/ k \notin KeysIn(rargs.prePorts)
        \/ k \notin KeysIn(rargs.postPorts)
        \/ HostIn(rargs.prePorts, k) # HostIn(rargs.postPorts, k)}

\* C20: buildRollbackPlan emits exactly one action for every key of a
\* selected container that is bound only after (from the post host to null),
\* only before (from null to the pre host) or to a different host port (from
\* the post host to the pre host), and no other action: none for a key whose
\* host port is unchanged, none for a container outside the selection.
C20_RollbackIsTheDifference ==
    rbuilt /\ rargs.selectedContainers.kind = "array" =>
        /\ Len(ractions) = Cardinality(ChangedKeys)
        /\ \A x \in Range(ractions) \cup {Reverting(k) : k \in ChangedKeys} :
              Cardinality({i \in 1..Len(ractions) : ractions[i] = x})
                = Cardinality({k \in ChangedKeys : Reverting(k) = x})

\* C20 witness: a is selected and its tcp/80 moved from 8080 to 9090; b, not
\* selected, moved as well; the plan holds the one action taking a back.
C20_Witness ==
    /\ rbuilt
    /\ rargs.selectedContainers = [kind |-> "array", items |-> {"a"}]
    /\ rargs.prePorts = <<PortRow("a", 8080, 80, "tcp"), PortRow("b", 5000, 80, "tcp")>>
    /\ rargs.postPorts = <<PortRow("a", 9090, 80, "tcp"), PortRow("b", 5001, 80, "tcp")>>
    /\ ractions = <<RollbackAction("a", "tcp", 9090, 8080)>>

\* the keys the two port lists bind, for whatever container
AllKeys ==
    {key(rargs.prePorts[i]) : i \in 1..Len(rargs.prePorts)}
        \cup {key(rargs.postPorts[i]) : i \in 1..Len(rargs.postPorts)}

Binds(ports, k) == \E i \in 1..Len(ports) : key(ports[i]) = k

\* the keys added, removed or bound to another host port between the lists
AllChangedKeys ==
    {k \in AllKeys :
        \/ ~Binds(rargs.prePorts, k)
        \/ ~Binds(rargs.postPorts, k)
        \/ HostIn(rargs.prePorts, k) # HostIn(rargs.postPorts, k)}

\* C21: with selectedContainers null or undefined, buildRollbackPlan
\* considers the keys of all containers: the plan holds one action for every
\* key added, removed or changed between the two lists, from the post host
\* (or null) to the pre host (or null).
C21_UnsetSelectsAll ==
    rbuilt /\ rargs.selectedContainers.kind = "null" =>
        /\ Len(ractions) = Cardinality(AllChangedKeys)
        /\ \A k \in AllChangedKeys :
              RollbackAction(k[1], k[2],
                             IF Binds(rargs.postPorts, k)
                             THEN HostIn(rargs.postPorts, k) ELSE NoHost,
                             IF Binds(rargs.prePorts, k)
                             THEN HostIn(rargs.prePorts, k) ELSE NoHost)
                \in Range(ractions)

\* C22: a rollback plan is replayable through the executor: the run of a
\* plan returned by buildRollbackPlan, mutation allowed and the downtime
\* accepted, passes the preflight, reaches the handler of each of its
\* update-container-ports actions and ends in success.
C22_RollbackReplayable ==
    /\ xrun.called
    /\ xrun.opts.allowDockerMutation
    /\ xrun.run.outcome.status # "aborted"
    => /\ xrun.run.outcome.status = "success"
       /\ Len(xrun.run.results) = Len(ractions)

\* ---------------------------------------------------------------------------
\* Properties of createRestorePlan
\* ---------------------------------------------------------------------------

\* the bindings a port list gives a container
BindingsOf(ports, c) ==
    {B(ports[i].host, ports[i].containerPort, ports[i].protocol) :
        i \in {j \in 1..Len(ports) : ports[j].container = c}}

\* the containers a restore is asked for
RestoreTargets ==
    IF rargs.selectedContainers.kind = "null"
    THEN {rargs.prePorts[i].container : i \in 1..Len(rargs.prePorts)}
           \cup {rargs.postPorts[i].container : i \in 1..Len(rargs.postPorts)}
    ELSE rargs.selectedContainers.items

\* C23: the restore plan takes every selected container from the bindings of
\* the snapshot's post-state to those of its pre-state: a container whose
\* bindings differ has one action, whose from is its full post-state binding
\* set (what the live check of the handler compares with) and whose to is its
\* full pre-state binding set, bindings only in the post-state being dropped.
C23_RestoreReachesPreState ==
    rbuilt =>
        \A c \in RestoreTargets :
            BindingsOf(rargs.prePorts, c) # BindingsOf(rargs.postPorts, c) =>
                /\ Cardinality({i \in 1..Len(ractions) : ractions[i].container = c}) = 1
                /\ \A i \in 1..Len(ractions) :
                      ractions[i].container = c =>
                          /\ PortKeySet(ractions[i].from) = {portFlag(b) : b \in BindingsOf(rargs.postPorts, c)}
                          /\ PortKeySet(ractions[i].to) = {portFlag(b) : b \in BindingsOf(rargs.prePorts, c)}

\* ---------------------------------------------------------------------------
\* Properties of the snapshots written by POST /api/apply
\* ---------------------------------------------------------------------------

\* C24: a snapshot is written for a job only if the job completed and was not
\* a dry run, and at most once: no snapshot for a job executed with
\* dryRun=true, none for a failed job.
C24_SnapshotOnlyForCompletedRealRun ==
    /\ \A k \in 1..Len(snapshots) :
          /\ jobs[snapshots[k]].status = "completed"
          /\ req.dryRun # "true"
    /\ \A k, l \in 1..Len(snapshots) : snapshots[k] = snapshots[l] => k = l

\* ---------------------------------------------------------------------------
\* Properties of the action types of planner, preflight and registry
\* ---------------------------------------------------------------------------

\* C25: every action type preflight accepts has a handler in the registry: a
\* plan that passed preflight never ends for want of a handler, and an
\* update-container-ports action that passed the gates reaches its handler.
C25_PreflightedPlanFindsHandlers ==
    outcome.reason # "no-handler"

\* ---------------------------------------------------------------------------
\* Properties of concurrent jobs
\* ---------------------------------------------------------------------------

MutatingSteps == {"stop", "remove", "create", "start"}

\* job i is inside its recreate sequence right before entry q of the log: it
\* passed the check of the published ports and has since neither completed
\* its start call nor thrown
InsideRecreate(i, q) ==
    \E p \in 1..(q - 1) :
        /\ jlog[p] = [job |-> i, op |-> "inspect", ok |-> TRUE]
        /\ \A r \in (p + 1)..(q - 1) :
              jlog[r].job = i => jlog[r].ok /\ jlog[r].op # "start"

\* C26: recreate sequences for one container never interleave: while a job is
\* between its passed check of the published ports and the completion of its
\* start call, no other job issues a stop, remove, create or start call for
\* the container.
C26_RecreateSequencesDoNotInterleave ==
    \A q \in 1..Len(jlog) :
        jlog[q].op \in MutatingSteps =>
            \A i \in RaceJobs \ {jlog[q].job} : ~InsideRecreate(i, q)

\* ---------------------------------------------------------------------------
\* Properties of the containers an apply job acts on
\* ---------------------------------------------------------------------------

RollbacksOf(jobsMap, sourceJobId) ==
    {k \in 1..Len(jobsMap) :
        jobsMap[k].kind = "rollback" /\ jobsMap[k].sourceJobId = sourceJobId}

\* C30: the jobs map never holds two rollback jobs for one source job, and a
\* rollback-apply request handled while a rollback job for its source job
\* exists (running, completed or failed) is answered 409 and creates no job.
C30_OneRollbackPerSourceJob ==
    /\ [](\A sourceJobId \in 1..Len(rjobs) :
            Cardinality(RollbacksOf(rjobs, sourceJobId)) <= 1)
    /\ [][\A r \in 1..Len(rreqs) :
            /\ rreqs[r].pc = "received"
            /\ rreqs'[r].pc # "received"
            /\ RollbacksOf(rjobs, rreqs[r].jobId) # {}
            => rreqs'[r].response = 409 /\ rjobs' = rjobs]_vars

\* C30 witness: two requests for source job 1 passed every other gate; the
\* first created the rollback job, which has failed since, and the second
\* was answered 409 without a job.
C30_Witness ==
    /\ Len(rreqs) = 2
    /\ rreqs[1].jobId = 1 /\ rreqs[2].jobId = 1
    /\ rreqs[1].response = 202 /\ rreqs[1].job = 3
    /\ rjobs[3].status = "failed"
    /\ rreqs[2].allowDockerMutation /\ rreqs[2].phraseMatches
    /\ rreqs[2].response = 409 /\ rreqs[2].job = 0
    /\ Len(rjobs) = 3

====
